---- MODULE Spec2Model ----
(***************************************************************************)
(* ClaudeCodeLanguageModel (src/src/claude-code-provider.ts): the          *)
(* streaming translator doStream, the single-shot collector doGenerate     *)
(* and the pure mappers they share.                                        *)
(*                                                                         *)
(* One behaviour is one call.  The upstream generator returned by query()  *)
(* is the environment: at every await of the for-await loop it yields one  *)
(* message, throws, or is exhausted.  Its return(), awaited when the loop  *)
(* is left by break, completes normally.  A step of the model is the code  *)
(* that runs between two awaits.                                           *)
(*                                                                         *)
(* Strings that the code only copies are TLA+ strings; strings the code    *)
(* parses or builds (tool arguments, the warning message) are sequences    *)
(* of characters/parts so that parsing and joining are computed.           *)
(***************************************************************************)
EXTENDS Integers, Sequences, FiniteSets, TLC

\* Upstream messages one call receives before the upstream must end.
MaxEvents == 3
\* Largest token count carried by a result message.
MaxTokens == 1
\* Messages doGenerate accumulates before the upstream must end.
MaxGenEvents == 2
\* Longest permission_denials list of a result message.
MaxDenials == 2
\* A result message of any shape ends a session of at most this many earlier
\* messages; after a longer session the result carries PlainUsage and no denial.
MaxRichPrefix == 1

\* event.index === undefined
NoIndex == -1
\* null / undefined values of message fields
Null == "null"

VARIABLES
    call,                    \* which method the caller invoked
    pc,                      \* where the call stands
    received,                \* number of upstream messages received so far
    upstreamEnd,             \* how the upstream ended, once it has
    seenToolIds,             \* doStream: tool ids the upstream has announced
    out,                     \* doStream: what controller.enqueue was given, in order
    closeCalls,              \* doStream: number of controller.close() calls
    hasStartedTextBlock,     \* doStream local
    hasStartedThinkingBlock, \* doStream local
    toolBlockIds,            \* doStream local: Map index -> tool id
    toolCalls,               \* doStream local: Map index -> OngoingToolCall
    finishReason,            \* doStream local
    usage,                   \* doStream local
    warnings,                \* doStream local, also referenced by stream-start
    messages,                \* doGenerate local
    resultMessage,           \* doGenerate local
    ret,                     \* doGenerate: the value returned or the error thrown
    options,                 \* the call options, without prompt and tools
    settings,                \* this.settings.options
    claudeCodeOptions,       \* the options object the call has built
    queries,                 \* the arguments query() was invoked with, in order
    script,                  \* what the upstream generator of this call will do
    aborted,                 \* the caller has aborted options.abortSignal
    delivered,               \* output events the consumer has read
    sid,                     \* which doStream invocation the variables above show
    parked                   \* the other doStream invocation, at its await

vars == << call, pc, received, upstreamEnd, seenToolIds, out, closeCalls,
           hasStartedTextBlock, hasStartedThinkingBlock, toolBlockIds, toolCalls,
           finishReason, usage, warnings, messages, resultMessage, ret,
           options, settings, claudeCodeOptions, queries, script, aborted,
           delivered, sid, parked >>

\* What no step of the two loops writes.
context == << options, settings, claudeCodeOptions, queries, script, aborted,
              delivered, sid, parked >>

genLocals == << messages, resultMessage, ret >>

streamLocals == << hasStartedTextBlock, hasStartedThinkingBlock, toolBlockIds,
                   toolCalls, finishReason, usage, warnings >>

----------------------------------------------------------------------------
\* Tool-argument strings are sequences of the characters { } : 1, the blank and
\* k, which stands for the string literal "a".

RECURSIVE SkipWs(_, _)
\* First position at or after i that holds no white space.
SkipWs(s, i) ==
    IF i <= Len(s) /\ s[i] = " " THEN SkipWs(s, i + 1) ELSE i

RECURSIVE ParseNumber(_, _)
\* Position after the digits that start at i.
ParseNumber(s, i) ==
    IF i <= Len(s) /\ s[i] = "1" THEN ParseNumber(s, i + 1) ELSE i

RECURSIVE ParseValue(_, _)
\* Position after the JSON value that starts at i, 0 when there is none.
ParseValue(s, i) ==
    IF i > Len(s) THEN 0
    ELSE IF s[i] = "1" THEN ParseNumber(s, i)
    ELSE IF s[i] = "k" THEN i + 1
    ELSE IF s[i] = "{" THEN
        LET j == SkipWs(s, i + 1) IN
        IF j > Len(s) THEN 0
        ELSE IF s[j] = "}" THEN j + 1
        ELSE IF s[j] = "k" THEN
            LET c == SkipWs(s, j + 1) IN
            IF c > Len(s) \/ s[c] # ":" THEN 0
            ELSE LET v == ParseValue(s, SkipWs(s, c + 1)) IN
                 IF v = 0 THEN 0
                 ELSE LET e == SkipWs(s, v) IN
                      IF e <= Len(s) /\ s[e] = "}" THEN e + 1 ELSE 0
        ELSE 0
    ELSE 0

\* JSON.parse(str) does not throw.
JsonParses(s) ==
    LET b == SkipWs(s, 1)
        e == ParseValue(s, b)
    IN  e # 0 /\ SkipWs(s, e) = Len(s) + 1

\* str.trim() === ''
TrimIsEmpty(s) == SkipWs(s, 1) = Len(s) + 1

isParsableJson(str) ==
    IF str = << >> \/ TrimIsEmpty(str) THEN FALSE ELSE JsonParses(str)

----------------------------------------------------------------------------
\* Values of the upstream messages.
Indexes == {0, 1}
ToolIds == {"t1", "t2"}
ToolNameOf(id) == IF id = "t1" THEN "Read" ELSE "Bash"

\* partial_json fragments: '{"a":1}', '{"a":', '1}' and ''.
FragWhole == << "{", "k", ":", "1", "}" >>
FragHead  == << "{", "k", ":" >>
FragTail  == << "1", "}" >>
FragEmpty == << >>
Fragments == {FragWhole, FragHead, FragTail, FragEmpty}

\* input objects of a ToolUseBlock: {a: 1}, {} and a missing input.
ToolInputs == {"obj_a1", "obj_empty", Null}
\* JSON.stringify(toolUse.input || {})
StringifyInput(input) ==
    IF input = "obj_a1" THEN << "{", "k", ":", "1", "}" >> ELSE << "{", "}" >>

Subtypes == {"success", "error_max_turns", "error_during_execution", "error_other"}
TokenCounts == 0 .. MaxTokens
DeniedTools == {"Bash", "Write"}
Denial(t) == [tool_name |-> t]
DenialLists ==
    UNION { [1 .. n -> { Denial(t) : t \in DeniedTools }] : n \in 0 .. MaxDenials }

StreamEvent(e) == [type |-> "stream_event", event |-> e]

ContentBlockStartMsgs ==
    { StreamEvent([type |-> "content_block_start", index |-> 0,
                   content_block |-> [type |-> "text"]]),
      StreamEvent([type |-> "content_block_start", index |-> 0,
                   content_block |-> [type |-> "thinking"]]) }
    \cup
    { StreamEvent([type |-> "content_block_start", index |-> i,
                   content_block |-> [type |-> "tool_use", id |-> t,
                                      name |-> ToolNameOf(t)]]) :
        i \in Indexes \cup {NoIndex}, t \in ToolIds }

ContentBlockDeltaMsgs ==
    { StreamEvent([type |-> "content_block_delta", index |-> 0,
                   delta |-> [type |-> "text_delta", text |-> x]]) :
        x \in {"Hello", " world"} }
    \cup
    { StreamEvent([type |-> "content_block_delta", index |-> 0,
                   delta |-> [type |-> "thinking_delta", thinking |-> "hmm"]]) }
    \cup
    { StreamEvent([type |-> "content_block_delta", index |-> i,
                   delta |-> [type |-> "input_json_delta", partial_json |-> f]]) :
        i \in Indexes \cup {NoIndex}, f \in Fragments }

ContentBlockStopMsgs ==
    { StreamEvent([type |-> "content_block_stop", index |-> i]) :
        i \in Indexes \cup {NoIndex} }

\* A sub-event no branch handles, and a stream_event that carries no event.
OtherStreamMsgs ==
    { StreamEvent([type |-> "message_start"]), [type |-> "stream_event"] }

TextBlock == [type |-> "text", text |-> "hi"]
ToolUseBlock(t, input) ==
    [type |-> "tool_use", id |-> t, name |-> ToolNameOf(t), input |-> input]
AssistantContents ==
    { << ToolUseBlock(t, i) >> : t \in ToolIds, i \in ToolInputs }
    \cup { << TextBlock, ToolUseBlock("t1", "obj_a1") >>,
           << ToolUseBlock("t1", "obj_a1"), ToolUseBlock("t1", "obj_a1") >>,
           << ToolUseBlock("t1", "obj_circular") >> }
\* Complete assistant turns, with and without a content array.
AssistantMsgs ==
    { [type |-> "assistant", message |-> [content |-> c]] : c \in AssistantContents }
    \cup { [type |-> "assistant", message |-> [role |-> "assistant"]] }

\* content of a ToolResultBlock: a string, another value, null.
ResultContents ==
    { [kind |-> "string", value |-> "ok"], [kind |-> "object", value |-> "obj_a1"],
      [kind |-> "null"] }
ToolResultBlocks ==
    { [type |-> "tool_result", tool_use_id |-> "t1", content |-> c] :
        c \in ResultContents }
    \cup { [type |-> "tool_result", tool_use_id |-> "t2",
            content |-> [kind |-> "string", value |-> "ok"], is_error |-> TRUE] }
UserContents ==
    { << b >> : b \in ToolResultBlocks }
    \cup { << TextBlock, [type |-> "tool_result", tool_use_id |-> "t1",
                          content |-> [kind |-> "string", value |-> "ok"]] >> }
    \cup { << [type |-> "tool_result", tool_use_id |-> "t1",
               content |-> [kind |-> "null"]],
              [type |-> "tool_result", tool_use_id |-> "t2",
               content |-> [kind |-> "string", value |-> "ok"], is_error |-> TRUE] >> }
\* Complete user turns: an array of blocks, or a plain string.
UserMsgs ==
    { [type |-> "user", message |-> [content |-> c]] : c \in UserContents }
    \cup { [type |-> "user", message |-> [text |-> "plain"]] }

SystemMsgs == { [type |-> "system"] }

\* subtype and result text: only a success carries a result string.
ResultHeads ==
    { [type |-> "result", subtype |-> "success", result |-> r] :
        r \in {"Hello world", ""} }
    \cup { [type |-> "result", subtype |-> t] : t \in Subtypes \ {"success"} }
PlainUsage == [input_tokens |-> MaxTokens, output_tokens |-> 0]
ResultMsgs ==
    { h @@ [usage |-> [input_tokens |-> i, output_tokens |-> o],
            permission_denials |-> d] :
        h \in ResultHeads, i \in TokenCounts, o \in TokenCounts, d \in DenialLists }
PlainResultMsgs ==
    { m \in ResultMsgs : m.usage = PlainUsage /\ m.permission_denials = << >> }
\* The result messages that may end a session of n earlier messages.
ResultsAfter(n) == IF n <= MaxRichPrefix THEN ResultMsgs ELSE PlainResultMsgs

\* Messages whose handling raises a TypeError: an assistant or user message
\* without its message, a result without usage.
FaultyAssistant == [type |-> "assistant"]
FaultyUser == [type |-> "user"]
FaultyResult == [type |-> "result", subtype |-> "success"]
FaultyMsgs == { FaultyAssistant, FaultyUser, FaultyResult }

\* What the upstream generator may throw.
UpstreamErrors == {"E1", "E2"}
\* How the upstream ended: not yet, by a result, by a throw, by exhaustion.
NotEnded == [kind |-> "none"]

----------------------------------------------------------------------------
\* The pure mappers.

\* A mapping without the error_during_execution case.
mapFinishReasonNoErrorCase(resultMsg) ==
    IF resultMsg.subtype = "error_max_turns" THEN "length" ELSE "stop"

mapFinishReason(resultMsg) ==
    IF resultMsg.subtype = "error_max_turns" THEN "length"
    ELSE IF resultMsg.subtype = "error_during_execution" THEN "error"
    ELSE "stop"

RECURSIVE Join(_, _)
\* Array.prototype.join: the parts with sep between neighbours.
Join(parts, sep) ==
    IF parts = << >> THEN << >>
    ELSE IF Len(parts) = 1 THEN << parts[1] >>
    ELSE << parts[1], sep >> \o Join(Tail(parts), sep)

RECURSIVE FirstSeen(_)
\* The names of a list without repeats, in the order first encountered.
FirstSeen(names) ==
    IF names = << >> THEN << >>
    ELSE LET front == FirstSeen(SubSeq(names, 1, Len(names) - 1))
             last == names[Len(names)]
         IN  IF \E i \in 1 .. Len(front) : front[i] = last
             THEN front ELSE Append(front, last)

\* The denied names with repeats dropped.
DeniedNamesDistinct(denials) ==
    FirstSeen([i \in 1 .. Len(denials) |-> denials[i].tool_name])

\* permission_denials.map((d) => d.tool_name)
DeniedNames(denials) == [i \in 1 .. Len(denials) |-> denials[i].tool_name]

\* A warning for each denial instead of one for the list.
extractWarningsPerDenial(resultMsg) ==
    [i \in 1 .. Len(resultMsg.permission_denials) |->
        [type |-> "other",
         message |-> << "Permission denied for tools: ",
                        resultMsg.permission_denials[i].tool_name >>]]

extractWarnings(resultMsg) ==
    IF Len(resultMsg.permission_denials) > 0
    THEN << [type |-> "other",
             message |-> << "Permission denied for tools: " >>
                         \o Join(DeniedNames(resultMsg.permission_denials), ", ")] >>
    ELSE << >>

\* A usage whose total leaves the output tokens out.
UsageOfTotalIsInput(resultMsg) ==
    [inputTokens  |-> resultMsg.usage.input_tokens,
     outputTokens |-> resultMsg.usage.output_tokens,
     totalTokens  |-> resultMsg.usage.input_tokens]

\* The usage object both call shapes build from a result message.
UsageOf(resultMsg) ==
    [inputTokens  |-> resultMsg.usage.input_tokens,
     outputTokens |-> resultMsg.usage.output_tokens,
     totalTokens  |-> resultMsg.usage.input_tokens + resultMsg.usage.output_tokens]

----------------------------------------------------------------------------
\* The call options and the options object built for query().

modelId == "claude-3-5-sonnet-20241022"
\* { ...obj, [key]: value }
With(obj, key, value) == (key :> value) @@ obj
\* { ...obj, [key]: undefined }: reading key gives undefined, as it does for an
\* object that has no such key.
WithUndefined(obj, key) == [k \in DOMAIN obj \ {key} |-> obj[k]]
\* Math.ceil(n / 100) of a non-negative integer
CeilOfHundredth(n) == (n + 99) \div 100

\* maxOutputTokens of the sample calls: 0 is falsy, 150 / 100 rounds up.
OutputTokenLimits == {0, 1, 100, 150}
\* S, and every object of S given the key with one of the values.
Extend(S, key, values) == S \cup { With(o, key, v) : o \in S, v \in values }
\* The options of a call: a prompt, and any of schema, mode, output,
\* outputSchema, maxOutputTokens and temperature.
CallOptions ==
    Extend(Extend(Extend(Extend(Extend(Extend(
        { [prompt |-> "user: test"] },
        "schema", {"schema_obj"}), "mode", {"json"}), "output", {"object"}),
        "outputSchema", {"schema_obj"}), "maxOutputTokens", OutputTokenLimits),
        "temperature", {7})
\* this.settings.options of the model instance.
Settings ==
    { [cwd |-> "/test/path"],
      [cwd |-> "/test/path", maxTurns |-> 5],
      [cwd |-> "/test/path", maxThinkingTokens |-> 1024],
      [cwd |-> "/test/path", maxTurns |-> 5, maxThinkingTokens |-> 1024] }
DefaultOptions == [prompt |-> "user: test"]
DefaultSettings == [cwd |-> "/test/path", maxTurns |-> 5]

\* const { prompt, tools, ...restOptions } = options
RestOptions(opts) == [k \in DOMAIN opts \ {"prompt", "tools"} |-> opts[k]]

\* maxTurns: restOptions.maxOutputTokens
\*             ? Math.ceil(restOptions.maxOutputTokens / 100) : undefined
WithMaxTurns(obj, restOptions) ==
    IF "maxOutputTokens" \in DOMAIN restOptions /\ restOptions.maxOutputTokens # 0
    THEN With(obj, "maxTurns", CeilOfHundredth(restOptions.maxOutputTokens))
    ELSE WithUndefined(obj, "maxTurns")

\* claudeCodeOptions of doGenerate
GenerateOptions(set, restOptions) ==
    With(WithMaxTurns(With(set, "model", modelId), restOptions),
         "abortController", "new AbortController()")

\* claudeCodeOptions of doStream
StreamOptions(set, restOptions) ==
    LET upToMaxTurns == WithMaxTurns(With(set, "model", modelId), restOptions)
        upToThinking ==
            IF "maxThinkingTokens" \in DOMAIN set
            THEN With(upToMaxTurns, "maxThinkingTokens", set.maxThinkingTokens)
            ELSE WithUndefined(upToMaxTurns, "maxThinkingTokens")
    IN  With(With(upToThinking, "includePartialMessages", TRUE),
             "abortController", "new AbortController()")

\* query({ prompt, options })
QueryCall(opts) == [options |-> opts]

\* The upstream generator is free to yield any message at any await.
FreeUpstream == [mode |-> "free"]
\* No second invocation is under way.
NoSession == [pc |-> "none"]

----------------------------------------------------------------------------
\* doStream

textBlockId == "0"
thinkingBlockId == "thinking-0"

\* Map.prototype.set
MapSet(m, k, v) == (k :> v) @@ m

\* The output events evs, each marked with the position of the upstream
\* message whose handling enqueues it (0: before the first message).
Caused(evs, n) == [i \in 1 .. Len(evs) |-> [at |-> n] @@ evs[i]]

\* controller.enqueue of each of evs, in order, while handling the next message.
Enqueue(evs) == out' = out \o Caused(evs, received + 1)

\* The for-await loop of doStream is awaiting the upstream.
Looping == call = "doStream" /\ pc = "loop"

\* The messages among S the upstream may yield now: any, when the generator is
\* free; the next one of its script, when it follows a script.
Offered(S) ==
    IF script.mode = "free" THEN S
    ELSE IF received < Len(script.messages)
         THEN S \cap { script.messages[received + 1] }
         ELSE {}

\* The upstream yields one more message that does not end the session.
Receive ==
    /\ Looping
    /\ script.mode = "free" => received < MaxEvents
    /\ received' = received + 1
    /\ UNCHANGED << call, pc, upstreamEnd, closeCalls, genLocals, context >>

StreamStartEvent == [type |-> "stream-start"]
TextStart == [type |-> "text-start", id |-> textBlockId]
TextEnd == [type |-> "text-end", id |-> textBlockId]
ReasoningStart == [type |-> "reasoning-start", id |-> thinkingBlockId]
ReasoningEnd(how) ==
    [type |-> "reasoning-end", id |-> thinkingBlockId, eventType |-> how]
ToolInputStart(id, name) == [type |-> "tool-input-start", id |-> id, toolName |-> name]
ToolInputEnd(id) == [type |-> "tool-input-end", id |-> id]
ToolCallEvent(id, name, input) ==
    [type |-> "tool-call", toolCallId |-> id, toolName |-> name, input |-> input]

\* A content_block_start handler that leaves the entry of an index it
\* already tracks in place when another tool use starts at the index.
ContentBlockStartKeepsEntry ==
    \E msg \in Offered(ContentBlockStartMsgs) :
        LET event == msg.event
            block == event.content_block
        IN  /\ Receive
            /\ IF block.type = "text" THEN
                   /\ Enqueue(<< TextStart >>)
                   /\ hasStartedTextBlock' = TRUE
                   /\ UNCHANGED << toolBlockIds, toolCalls >>
               ELSE IF block.type = "tool_use" /\ event.index # NoIndex THEN
                   /\ toolBlockIds' = MapSet(toolBlockIds, event.index, block.id)
                   /\ toolCalls' = IF event.index \in DOMAIN toolCalls THEN toolCalls
                                   ELSE MapSet(toolCalls, event.index,
                                               [id |-> block.id, name |-> block.name,
                                                arguments |-> << >>,
                                                hasFinished |-> FALSE])
                   /\ Enqueue(<< ToolInputStart(block.id, block.name) >>)
                   /\ UNCHANGED hasStartedTextBlock
               ELSE UNCHANGED << out, hasStartedTextBlock, toolBlockIds, toolCalls >>
            /\ seenToolIds' = IF block.type = "tool_use"
                              THEN seenToolIds \cup {block.id} ELSE seenToolIds
            /\ UNCHANGED << hasStartedThinkingBlock, finishReason, usage, warnings >>

\* content_block_start
ContentBlockStart ==
    \E msg \in Offered(ContentBlockStartMsgs) :
        LET event == msg.event
            block == event.content_block
        IN  /\ Receive
            /\ IF block.type = "text" THEN
                   /\ Enqueue(<< TextStart >>)
                   /\ hasStartedTextBlock' = TRUE
                   /\ UNCHANGED << toolBlockIds, toolCalls >>
               ELSE IF block.type = "tool_use" /\ event.index # NoIndex THEN
                   /\ toolBlockIds' = MapSet(toolBlockIds, event.index, block.id)
                   /\ toolCalls' = MapSet(toolCalls, event.index,
                                          [id |-> block.id, name |-> block.name,
                                           arguments |-> << >>, hasFinished |-> FALSE])
                   /\ Enqueue(<< ToolInputStart(block.id, block.name) >>)
                   /\ UNCHANGED hasStartedTextBlock
               ELSE UNCHANGED << out, hasStartedTextBlock, toolBlockIds, toolCalls >>
            /\ seenToolIds' = IF block.type = "tool_use"
                              THEN seenToolIds \cup {block.id} ELSE seenToolIds
            /\ UNCHANGED << hasStartedThinkingBlock, finishReason, usage, warnings >>

\* A text_delta handler that opens the text block without asking whether it
\* is open.
TextDeltaAlwaysStarts ==
    \E msg \in Offered(ContentBlockDeltaMsgs) :
        /\ msg.event.delta.type = "text_delta"
        /\ Receive
        /\ Enqueue(<< TextStart,
                      [type |-> "text-delta", id |-> textBlockId,
                       delta |-> msg.event.delta.text] >>)
        /\ hasStartedTextBlock' = TRUE
        /\ UNCHANGED << seenToolIds, hasStartedThinkingBlock, toolBlockIds, toolCalls,
                        finishReason, usage, warnings >>

\* content_block_delta / text_delta
TextDelta ==
    \E msg \in Offered(ContentBlockDeltaMsgs) :
        /\ msg.event.delta.type = "text_delta"
        /\ Receive
        /\ Enqueue((IF hasStartedTextBlock THEN << >> ELSE << TextStart >>)
                   \o << [type |-> "text-delta", id |-> textBlockId,
                          delta |-> msg.event.delta.text] >>)
        /\ hasStartedTextBlock' = TRUE
        /\ UNCHANGED << seenToolIds, hasStartedThinkingBlock, toolBlockIds, toolCalls,
                        finishReason, usage, warnings >>

\* A thinking_delta handler without the lazy start.
ThinkingDeltaNeverStarts ==
    \E msg \in Offered(ContentBlockDeltaMsgs) :
        /\ msg.event.delta.type = "thinking_delta"
        /\ Receive
        /\ Enqueue(<< [type |-> "reasoning-delta", id |-> thinkingBlockId,
                       delta |-> msg.event.delta.thinking] >>)
        /\ hasStartedThinkingBlock' = TRUE
        /\ UNCHANGED << seenToolIds, hasStartedTextBlock, toolBlockIds, toolCalls,
                        finishReason, usage, warnings >>

\* content_block_delta / thinking_delta
ThinkingDelta ==
    \E msg \in Offered(ContentBlockDeltaMsgs) :
        /\ msg.event.delta.type = "thinking_delta"
        /\ Receive
        /\ Enqueue((IF hasStartedThinkingBlock THEN << >> ELSE << ReasoningStart >>)
                   \o << [type |-> "reasoning-delta", id |-> thinkingBlockId,
                          delta |-> msg.event.delta.thinking] >>)
        /\ hasStartedThinkingBlock' = TRUE
        /\ UNCHANGED << seenToolIds, hasStartedTextBlock, toolBlockIds, toolCalls,
                        finishReason, usage, warnings >>

\* An input_json_delta handler that goes on accumulating after the
\* arguments have become JSON: it never looks at hasFinished.
InputJsonDeltaIgnoresFinished ==
    \E msg \in Offered(ContentBlockDeltaMsgs) :
        LET event == msg.event
            delta == event.delta.partial_json
        IN  /\ event.delta.type = "input_json_delta"
            /\ Receive
            /\ IF /\ event.index # NoIndex
                  /\ delta # << >>
                  /\ event.index \in DOMAIN toolCalls
               THEN LET toolCall == toolCalls[event.index]
                        arguments == toolCall.arguments \o delta
                        done == isParsableJson(arguments)
                    IN  /\ toolCalls' = [toolCalls EXCEPT ![event.index] =
                                            [toolCall EXCEPT !.arguments = arguments,
                                                             !.hasFinished = done]]
                        /\ Enqueue(<< [type |-> "tool-input-delta", id |-> toolCall.id,
                                       delta |-> delta] >>
                                   \o (IF done
                                       THEN << ToolInputEnd(toolCall.id),
                                               ToolCallEvent(toolCall.id, toolCall.name,
                                                             arguments) >>
                                       ELSE << >>))
               ELSE UNCHANGED << out, toolCalls >>
            /\ UNCHANGED << seenToolIds, hasStartedTextBlock, hasStartedThinkingBlock,
                            toolBlockIds, finishReason, usage, warnings >>

\* An input_json_delta handler that starts an entry for an index it does not
\* track instead of dropping the fragment.
InputJsonDeltaTracksUnknown ==
    \E msg \in Offered(ContentBlockDeltaMsgs) :
        LET event == msg.event
            delta == event.delta.partial_json
            known == event.index \in DOMAIN toolCalls
            toolCall == IF known THEN toolCalls[event.index]
                        ELSE [id |-> "t1", name |-> ToolNameOf("t1"),
                              arguments |-> << >>, hasFinished |-> FALSE]
            arguments == toolCall.arguments \o delta
            done == isParsableJson(arguments)
        IN  /\ event.delta.type = "input_json_delta"
            /\ Receive
            /\ IF event.index # NoIndex /\ delta # << >> /\ ~toolCall.hasFinished
               THEN /\ toolCalls' = MapSet(toolCalls, event.index,
                                           [toolCall EXCEPT !.arguments = arguments,
                                                            !.hasFinished = done])
                    /\ Enqueue(<< [type |-> "tool-input-delta", id |-> toolCall.id,
                                   delta |-> delta] >>
                               \o (IF done
                                   THEN << ToolInputEnd(toolCall.id),
                                           ToolCallEvent(toolCall.id, toolCall.name,
                                                         arguments) >>
                                   ELSE << >>))
               ELSE UNCHANGED << out, toolCalls >>
            /\ UNCHANGED << seenToolIds, hasStartedTextBlock, hasStartedThinkingBlock,
                            toolBlockIds, finishReason, usage, warnings >>

\* content_block_delta / input_json_delta
InputJsonDelta ==
    \E msg \in Offered(ContentBlockDeltaMsgs) :
        LET event == msg.event
            delta == event.delta.partial_json
        IN  /\ event.delta.type = "input_json_delta"
            /\ Receive
            /\ IF /\ event.index # NoIndex
                  /\ delta # << >>
                  /\ event.index \in DOMAIN toolCalls
                  /\ ~toolCalls[event.index].hasFinished
               THEN LET toolCall == toolCalls[event.index]
                        arguments == toolCall.arguments \o delta
                        done == isParsableJson(arguments)
                    IN  /\ toolCalls' = [toolCalls EXCEPT ![event.index] =
                                            [toolCall EXCEPT !.arguments = arguments,
                                                             !.hasFinished = done]]
                        /\ Enqueue(<< [type |-> "tool-input-delta", id |-> toolCall.id,
                                       delta |-> delta] >>
                                   \o (IF done
                                       THEN << ToolInputEnd(toolCall.id),
                                               ToolCallEvent(toolCall.id, toolCall.name,
                                                             arguments) >>
                                       ELSE << >>))
               ELSE UNCHANGED << out, toolCalls >>
            /\ UNCHANGED << seenToolIds, hasStartedTextBlock, hasStartedThinkingBlock,
                            toolBlockIds, finishReason, usage, warnings >>

\* content_block_stop
\* A content_block_stop handler that emits the tool-call of an incomplete
\* entry whether or not its accumulated arguments are JSON.
ContentBlockStopAlwaysCalls ==
    \E msg \in Offered(ContentBlockStopMsgs) :
        LET event == msg.event
            pending == /\ event.index # NoIndex
                       /\ event.index \in DOMAIN toolCalls
                       /\ ~toolCalls[event.index].hasFinished
            toolCall == toolCalls[event.index]
        IN  /\ Receive
            /\ Enqueue((IF hasStartedTextBlock THEN << TextEnd >> ELSE << >>)
                       \o (IF ~pending THEN << >>
                           ELSE << ToolInputEnd(toolCall.id),
                                   ToolCallEvent(toolCall.id, toolCall.name,
                                                 toolCall.arguments) >>))
            /\ hasStartedTextBlock' = FALSE
            /\ toolCalls' = IF pending
                            THEN [toolCalls EXCEPT ![event.index].hasFinished = TRUE]
                            ELSE toolCalls
            /\ UNCHANGED << seenToolIds, hasStartedThinkingBlock, toolBlockIds,
                            finishReason, usage, warnings >>

ContentBlockStop ==
    \E msg \in Offered(ContentBlockStopMsgs) :
        LET event == msg.event
            pending == /\ event.index # NoIndex
                       /\ event.index \in DOMAIN toolCalls
                       /\ ~toolCalls[event.index].hasFinished
            toolCall == toolCalls[event.index]
            done == isParsableJson(toolCall.arguments)
        IN  /\ Receive
            /\ Enqueue((IF hasStartedTextBlock THEN << TextEnd >> ELSE << >>)
                       \o (IF ~pending THEN << >>
                           ELSE IF done
                           THEN << ToolInputEnd(toolCall.id),
                                   ToolCallEvent(toolCall.id, toolCall.name,
                                                 toolCall.arguments) >>
                           ELSE << ToolInputEnd(toolCall.id) >>))
            /\ hasStartedTextBlock' = FALSE
            /\ toolCalls' = IF pending /\ done
                            THEN [toolCalls EXCEPT ![event.index].hasFinished = TRUE]
                            ELSE toolCalls
            /\ UNCHANGED << seenToolIds, hasStartedThinkingBlock, toolBlockIds,
                            finishReason, usage, warnings >>

\* A stream_event no branch handles, or one whose processing faults: the
\* inner try/catch absorbs the fault.
OtherStreamEvent ==
    \E msg \in Offered(OtherStreamMsgs) :
        /\ Receive
        /\ UNCHANGED << seenToolIds, out, streamLocals >>

\* A fallback that never consults the correlation table.
AlreadyHandledNever(id) == FALSE

\* A check that takes every tracked id for handled, complete or not.
AlreadyHandledWhenTracked(id) ==
    \E i \in DOMAIN toolCalls : toolCalls[i].id = id

\* The fallback's check of one ToolUseBlock against the correlation table.
AlreadyHandled(id) ==
    \E i \in DOMAIN toolCalls : toolCalls[i].id = id /\ toolCalls[i].hasFinished

\* JSON.stringify throws on this input (a cyclic object).
StringifyThrows(input) == input = "obj_circular"

\* The tool-call events one assistant message causes, in block order.
FallbackCalls(content) ==
    LET emitting == SelectSeq(content,
                        LAMBDA b : /\ b.type = "tool_use"
                                   /\ ~AlreadyHandled(b.id)
                                   /\ ~StringifyThrows(b.input))
    IN  [i \in 1 .. Len(emitting) |->
            ToolCallEvent(emitting[i].id, emitting[i].name,
                          StringifyInput(emitting[i].input))]

\* The tool ids of the ToolUseBlocks of a content array.
ToolUseIds(content) ==
    { content[i].id : i \in { j \in 1 .. Len(content) : content[j].type = "tool_use" } }

\* A complete assistant message.
AssistantMessage ==
    \E msg \in Offered(AssistantMsgs) :
        LET content == IF "content" \in DOMAIN msg.message
                       THEN msg.message.content ELSE << >>
        IN  /\ Receive
            /\ Enqueue(FallbackCalls(content))
            /\ seenToolIds' = seenToolIds \cup ToolUseIds(content)
            /\ UNCHANGED streamLocals

\* A resultContent that serializes whatever the content is.
StreamResultContentSerializesAll(block) ==
    [json |-> IF block.content.kind = "null" THEN "null" ELSE block.content.value]

\* resultContent of one ToolResultBlock in doStream.
StreamResultContent(block) ==
    IF block.content.kind = "string" THEN [raw |-> block.content.value]
    ELSE IF block.content.kind # "null" THEN [json |-> block.content.value]
    ELSE [raw |-> ""]

\* toolResult.is_error || false
IsError(block) == IF "is_error" \in DOMAIN block THEN block.is_error ELSE FALSE

\* The tool-result events one user message causes, in block order.
ToolResults(content) ==
    LET results == SelectSeq(content, LAMBDA b : b.type = "tool_result")
    IN  [i \in 1 .. Len(results) |->
            [type |-> "tool-result", toolCallId |-> results[i].tool_use_id,
             isError |-> IsError(results[i]), toolName |-> "unknown",
             result |-> StreamResultContent(results[i])]]

\* A complete user message.
UserMessage ==
    \E msg \in Offered(UserMsgs) :
        /\ Receive
        /\ Enqueue(IF "content" \in DOMAIN msg.message
                   THEN ToolResults(msg.message.content)
                   ELSE << >>)
        /\ UNCHANGED << seenToolIds, streamLocals >>

\* A message of a type no branch handles.
SystemMessage ==
    \E msg \in Offered(SystemMsgs) :
        /\ Receive
        /\ UNCHANGED << seenToolIds, out, streamLocals >>

\* A result branch that enqueues finish with the usage it had before.
ResultEventsStaleUsage(reason, use) ==
    (IF hasStartedTextBlock THEN << TextEnd >> ELSE << >>)
    \o (IF hasStartedThinkingBlock
        THEN << ReasoningEnd("thinking_end") >> ELSE << >>)
    \o << [type |-> "finish", finishReason |-> reason, usage |-> usage] >>

\* A result branch that enqueues both end events whatever the flags say.
ResultEventsAlwaysEnds(reason, use) ==
    << TextEnd, ReasoningEnd("thinking_end"),
       [type |-> "finish", finishReason |-> reason, usage |-> use] >>

\* The events the result branch enqueues.
ResultEvents(reason, use) ==
    (IF hasStartedTextBlock THEN << TextEnd >> ELSE << >>)
    \o (IF hasStartedThinkingBlock
        THEN << ReasoningEnd("thinking_end") >> ELSE << >>)
    \o << [type |-> "finish", finishReason |-> reason, usage |-> use] >>

\* A missing break: the loop goes on to await the upstream.
AfterFinishKeepsLooping == "loop"

\* Where the result branch leaves the loop: its break.
AfterFinish == "break"

\* The result messages the upstream may yield now.
ResultsOffered ==
    IF script.mode = "free" THEN ResultsAfter(received) ELSE Offered(ResultMsgs)

\* The result message: finish, then break.
ResultMessage ==
    \E msg \in ResultsOffered :
        /\ Looping
        /\ received' = received + 1
        /\ upstreamEnd' = [kind |-> "result", message |-> msg]
        /\ finishReason' = mapFinishReason(msg)
        /\ usage' = UsageOf(msg)
        /\ warnings' = warnings \o extractWarnings(msg)
        /\ Enqueue(ResultEvents(finishReason', usage'))
        /\ hasStartedTextBlock' = FALSE
        /\ hasStartedThinkingBlock' = FALSE
        /\ pc' = AfterFinish
        /\ UNCHANGED << call, seenToolIds, closeCalls, toolBlockIds, toolCalls,
                        genLocals, context >>

\* A catch block that enqueues the error without closing the text block.
CatchEventsNoTextEnd(error) ==
    (IF hasStartedThinkingBlock
     THEN << ReasoningEnd("thinking_end_error") >> ELSE << >>)
    \o << [type |-> "error", error |-> error] >>

\* catch (error) of start(): close the open blocks, enqueue the error event.
CatchEvents(error) ==
    (IF hasStartedTextBlock THEN << TextEnd >> ELSE << >>)
    \o (IF hasStartedThinkingBlock
        THEN << ReasoningEnd("thinking_end_error") >> ELSE << >>)
    \o << [type |-> "error", error |-> error] >>

\* A finally block that ends start() without closing the stream.
CloseForgotten ==
    /\ closeCalls' = closeCalls
    /\ pc' = "done"

\* finally of start(): controller.close(), then start() is over.
Close ==
    /\ closeCalls' = closeCalls + 1
    /\ pc' = "done"

\* The script of the upstream is over and ends this way.
Ends(how) ==
    /\ script.mode = "scripted"
    /\ received = Len(script.messages)
    /\ script.ending = how

\* A fault after which the finish event is enqueued before the catch block
\* enqueues the error event.
FaultyMessageFinishesFirst ==
    \E msg \in Offered(FaultyMsgs) :
        /\ Looping
        /\ received' = received + 1
        /\ upstreamEnd' = [kind |-> "fault", message |-> msg]
        /\ Enqueue(ResultEvents(finishReason, usage)
                   \o << [type |-> "error", error |-> "TypeError"] >>)
        /\ Close
        /\ UNCHANGED << call, seenToolIds, streamLocals, genLocals, context >>

\* A message whose handling raises a TypeError outside the inner try blocks.
FaultyMessage ==
    \E msg \in Offered(FaultyMsgs) :
        /\ Looping
        /\ received' = received + 1
        /\ upstreamEnd' = [kind |-> "fault", message |-> msg]
        /\ Enqueue(CatchEvents("TypeError"))
        /\ Close
        /\ UNCHANGED << call, seenToolIds, streamLocals, genLocals, context >>

\* The upstream generator throws instead of yielding.
UpstreamThrows ==
    \E error \in UpstreamErrors :
        /\ Looping
        /\ script.mode = "free" \/ Ends("throw")
        /\ upstreamEnd' = [kind |-> "throw", error |-> error]
        /\ Enqueue(CatchEvents(error))
        /\ Close
        /\ UNCHANGED << call, received, seenToolIds, streamLocals, genLocals, context >>

\* The upstream generator is exhausted: the loop ends and finally runs.
UpstreamDone ==
    /\ Looping
    /\ script.mode = "free" \/ Ends("done")
    /\ upstreamEnd' = [kind |-> "done"]
    /\ Close
    /\ UNCHANGED << call, received, seenToolIds, out, streamLocals, genLocals, context >>

\* The generator's return(), awaited by break, has completed: finally runs.
AfterBreak ==
    /\ call = "doStream"
    /\ pc = "break"
    /\ Close
    /\ UNCHANGED << call, received, upstreamEnd, seenToolIds, out, streamLocals,
                    genLocals, context >>

\* The first events start() enqueues, before it awaits the upstream.
StartEvents == << StreamStartEvent >>

\* The state when doStream has returned its stream.
StreamInit ==
    /\ call = "doStream"
    /\ pc = "loop"
    /\ received = 0
    /\ upstreamEnd = NotEnded
    /\ seenToolIds = {}
    /\ out = Caused(StartEvents, 0)
    /\ closeCalls = 0
    /\ hasStartedTextBlock = FALSE
    /\ hasStartedThinkingBlock = FALSE
    /\ toolBlockIds = << >>
    /\ toolCalls = << >>
    /\ finishReason = "unknown"
    /\ usage = [inputTokens |-> 0, outputTokens |-> 0, totalTokens |-> 0]
    /\ warnings = << >>
    /\ messages = << >>
    /\ resultMessage = [type |-> "null"]
    /\ ret = [status |-> "pending"]
    /\ options = DefaultOptions
    /\ settings = DefaultSettings
    /\ claudeCodeOptions = StreamOptions(settings, RestOptions(options))
    /\ queries = << QueryCall(claudeCodeOptions) >>
    /\ script = FreeUpstream
    /\ aborted = FALSE
    /\ delivered = 0
    /\ sid = 1
    /\ parked = NoSession

StreamNext ==
    \/ ContentBlockStart
    \/ TextDelta
    \/ ThinkingDelta
    \/ InputJsonDelta
    \/ ContentBlockStop
    \/ OtherStreamEvent
    \/ AssistantMessage
    \/ UserMessage
    \/ SystemMessage
    \/ ResultMessage
    \/ FaultyMessage
    \/ UpstreamThrows
    \/ UpstreamDone
    \/ AfterBreak

----------------------------------------------------------------------------
\* doGenerate

\* Without includePartialMessages the upstream yields whole messages only.
GenMsgs == AssistantMsgs \cup UserMsgs \cup SystemMsgs \cup {FaultyAssistant, FaultyUser}

\* An extraction that keeps only the first ToolUseBlock of a message.
GenMessageCallsFirstOnly(msg) ==
    LET content == IF "content" \in DOMAIN msg.message
                   THEN msg.message.content ELSE << >>
        blocks == SelectSeq(content, LAMBDA b : b.type = "tool_use")
    IN  [i \in 1 .. (IF blocks = << >> THEN 0 ELSE 1) |->
            ToolCallEvent(blocks[i].id, blocks[i].name, StringifyInput(blocks[i].input))]

\* The tool-call entries of one assistant message.
GenMessageCalls(msg) ==
    LET content == IF "content" \in DOMAIN msg.message
                   THEN msg.message.content ELSE << >>
        blocks == SelectSeq(content, LAMBDA b : b.type = "tool_use")
    IN  [i \in 1 .. Len(blocks) |->
            ToolCallEvent(blocks[i].id, blocks[i].name, StringifyInput(blocks[i].input))]

RECURSIVE GenToolCalls(_)
\* messages.filter(assistant).flatMap(tool_use blocks)
GenToolCalls(ms) ==
    IF ms = << >> THEN << >>
    ELSE (IF Head(ms).type = "assistant" THEN GenMessageCalls(Head(ms)) ELSE << >>)
         \o GenToolCalls(Tail(ms))

\* result of one ToolResultBlock in doGenerate.
GenResultContent(block) ==
    IF block.content.kind = "string" THEN [raw |-> block.content.value]
    ELSE IF block.content.kind # "null" THEN [json |-> block.content.value]
    ELSE [json |-> "tool_result_block"]

\* The tool-result entries of one user message.
GenMessageResults(msg) ==
    LET content == IF "content" \in DOMAIN msg.message
                   THEN msg.message.content ELSE << >>
        blocks == SelectSeq(content, LAMBDA b : b.type = "tool_result")
    IN  [i \in 1 .. Len(blocks) |->
            [type |-> "tool-result",
             toolCallId |-> IF "tool_use_id" \in DOMAIN blocks[i]
                            THEN blocks[i].tool_use_id ELSE "unknown",
             toolName |-> "unknown", isError |-> IsError(blocks[i]),
             result |-> GenResultContent(blocks[i])]]

RECURSIVE GenToolResults(_)
\* messages.filter(user).flatMap(tool_result blocks)
GenToolResults(ms) ==
    IF ms = << >> THEN << >>
    ELSE (IF Head(ms).type = "user" THEN GenMessageResults(Head(ms)) ELSE << >>)
         \o GenToolResults(Tail(ms))

\* The extraction pass raises a TypeError: a message without its message
\* object, an input JSON.stringify rejects, a result without usage.
GenExtractionFaults(ms, result) ==
    \/ \E i \in 1 .. Len(ms) :
          /\ ms[i].type \in {"assistant", "user"}
          /\ "message" \notin DOMAIN ms[i]
    \/ \E i \in 1 .. Len(ms) :
          /\ ms[i].type = "assistant"
          /\ "message" \in DOMAIN ms[i]
          /\ "content" \in DOMAIN ms[i].message
          /\ \E j \in 1 .. Len(ms[i].message.content) :
                /\ ms[i].message.content[j].type = "tool_use"
                /\ StringifyThrows(ms[i].message.content[j].input)
    \/ "usage" \notin DOMAIN result

\* A content that keeps the text block of an empty result string.
GenContentKeepsEmpty(result) ==
    IF result.subtype = "success" /\ "result" \in DOMAIN result
    THEN << [type |-> "text", text |-> result.result] >>
    ELSE << >>

\* content of the returned object
GenContent(result) ==
    IF result.subtype = "success" /\ "result" \in DOMAIN result /\ result.result # ""
    THEN << [type |-> "text", text |-> result.result] >>
    ELSE << >>

\* The object doGenerate returns.
ReturnObject(ms, result) ==
    [content |-> GenContent(result),
     finishReason |-> mapFinishReason(result),
     usage |-> UsageOf(result),
     toolCalls |-> GenToolCalls(ms),
     toolResults |-> GenToolResults(ms),
     request |-> [body |-> claudeCodeOptions],
     warnings |-> extractWarnings(result)]

\* throw new Error(`Claude Code API error: ${error}`)
Rethrown(error) == [status |-> "thrown", error |-> [wraps |-> error]]

Collecting == call = "doGenerate" /\ pc = "loop"

\* The upstream yields a message that is not a result: it is accumulated.
GenReceive ==
    \E msg \in GenMsgs :
        /\ Collecting
        /\ received < MaxGenEvents
        /\ received' = received + 1
        /\ messages' = Append(messages, msg)
        /\ UNCHANGED << call, pc, upstreamEnd, seenToolIds, out, closeCalls,
                        streamLocals, context, resultMessage, ret >>

\* The upstream yields a result: it is accumulated and ends the loop.
GenResultMessage ==
    \E msg \in ResultsAfter(received) \cup {FaultyResult} :
        /\ Collecting
        /\ received' = received + 1
        /\ messages' = Append(messages, msg)
        /\ resultMessage' = msg
        /\ upstreamEnd' = [kind |-> "result", message |-> msg]
        /\ pc' = "break"
        /\ UNCHANGED << call, seenToolIds, out, closeCalls, streamLocals, context, ret >>

\* After the loop: the extraction pass and the return.
GenReturn ==
    /\ call = "doGenerate"
    /\ pc = "break"
    /\ ret' = IF GenExtractionFaults(messages, resultMessage)
              THEN Rethrown("TypeError")
              ELSE [status |-> "returned",
                    value |-> ReturnObject(messages, resultMessage)]
    /\ pc' = "done"
    /\ UNCHANGED << call, received, upstreamEnd, seenToolIds, out, closeCalls,
                    streamLocals, context, messages, resultMessage >>

\* The upstream generator throws while being driven.
GenUpstreamThrows ==
    \E error \in UpstreamErrors :
        /\ Collecting
        /\ upstreamEnd' = [kind |-> "throw", error |-> error]
        /\ ret' = Rethrown(error)
        /\ pc' = "done"
        /\ UNCHANGED << call, received, seenToolIds, out, closeCalls, streamLocals, context,
                        messages, resultMessage >>

\* An exhausted upstream answered with an empty aggregate instead of an error.
GenUpstreamDoneReturnsEmpty ==
    /\ Collecting
    /\ upstreamEnd' = [kind |-> "done"]
    /\ ret' = [status |-> "returned",
               value |-> [content |-> << >>, finishReason |-> "unknown",
                          toolCalls |-> GenToolCalls(messages),
                          toolResults |-> GenToolResults(messages),
                          warnings |-> << >>]]
    /\ pc' = "done"
    /\ UNCHANGED << call, received, seenToolIds, out, closeCalls, streamLocals, context,
                    messages, resultMessage >>

\* The upstream generator is exhausted without a result.
GenUpstreamDone ==
    /\ Collecting
    /\ upstreamEnd' = [kind |-> "done"]
    /\ ret' = Rethrown("No result received from Claude Code")
    /\ pc' = "done"
    /\ UNCHANGED << call, received, seenToolIds, out, closeCalls, streamLocals, context,
                    messages, resultMessage >>

\* The state when doGenerate starts to drive the upstream.
GenInit ==
    /\ call = "doGenerate"
    /\ pc = "loop"
    /\ received = 0
    /\ upstreamEnd = NotEnded
    /\ seenToolIds = {}
    /\ out = << >>
    /\ closeCalls = 0
    /\ hasStartedTextBlock = FALSE
    /\ hasStartedThinkingBlock = FALSE
    /\ toolBlockIds = << >>
    /\ toolCalls = << >>
    /\ finishReason = "unknown"
    /\ usage = [inputTokens |-> 0, outputTokens |-> 0, totalTokens |-> 0]
    /\ warnings = << >>
    /\ messages = << >>
    /\ resultMessage = [type |-> "null"]
    /\ ret = [status |-> "pending"]
    /\ options = DefaultOptions
    /\ settings = DefaultSettings
    /\ claudeCodeOptions = GenerateOptions(settings, RestOptions(options))
    /\ queries = << QueryCall(claudeCodeOptions) >>
    /\ script = FreeUpstream
    /\ aborted = FALSE
    /\ delivered = 0
    /\ sid = 1
    /\ parked = NoSession

GenNext ==
    \/ GenReceive
    \/ GenResultMessage
    \/ GenReturn
    \/ GenUpstreamThrows
    \/ GenUpstreamDone

----------------------------------------------------------------------------
\* One call of either shape.
Init == StreamInit \/ GenInit
Next == StreamNext \/ GenNext
Spec == Init /\ [][Next]_vars

\* The event loop runs every step that is ready: an enabled step is taken.
FairSpec == Spec /\ WF_vars(Next)

----------------------------------------------------------------------------
\* The two calls from their entry to the first await of their loop.

\* claudeCodeOptions before the call has built it.
NotBuilt == [built |-> FALSE]

\* doGenerate: the options object is built, query() is invoked and the loop
\* awaits the first message.
DoGenerateCall ==
    /\ call = "doGenerate"
    /\ pc = "called"
    /\ claudeCodeOptions' = GenerateOptions(settings, RestOptions(options))
    /\ queries' = Append(queries, QueryCall(claudeCodeOptions'))
    /\ pc' = "loop"
    /\ UNCHANGED << call, received, upstreamEnd, seenToolIds, out, closeCalls,
                    streamLocals, genLocals, options, settings, script, aborted,
                    delivered, sid, parked >>

\* doStream: the options object is built, the stream is constructed and its
\* start() enqueues stream-start, invokes query() and awaits the first message.
DoStreamCall ==
    /\ call = "doStream"
    /\ pc = "called"
    /\ claudeCodeOptions' = StreamOptions(settings, RestOptions(options))
    /\ out' = out \o Caused(StartEvents, 0)
    /\ queries' = Append(queries, QueryCall(claudeCodeOptions'))
    /\ pc' = "loop"
    /\ UNCHANGED << call, received, upstreamEnd, seenToolIds, closeCalls,
                    streamLocals, genLocals, options, settings, script, aborted,
                    delivered, sid, parked >>

\* A model instance of any settings is called with any options.
CallInit ==
    /\ call \in {"doGenerate", "doStream"}
    /\ pc = "called"
    /\ options \in CallOptions
    /\ settings \in Settings
    /\ claudeCodeOptions = NotBuilt
    /\ queries = << >>
    /\ received = 0
    /\ upstreamEnd = NotEnded
    /\ seenToolIds = {}
    /\ out = << >>
    /\ closeCalls = 0
    /\ hasStartedTextBlock = FALSE
    /\ hasStartedThinkingBlock = FALSE
    /\ toolBlockIds = << >>
    /\ toolCalls = << >>
    /\ finishReason = "unknown"
    /\ usage = [inputTokens |-> 0, outputTokens |-> 0, totalTokens |-> 0]
    /\ warnings = << >>
    /\ messages = << >>
    /\ resultMessage = [type |-> "null"]
    /\ ret = [status |-> "pending"]
    /\ script = FreeUpstream
    /\ aborted = FALSE
    /\ delivered = 0
    /\ sid = 1
    /\ parked = NoSession

CallNext == DoGenerateCall \/ DoStreamCall
CallSpec == CallInit /\ [][CallNext]_vars

----------------------------------------------------------------------------
\* doStream against an upstream that follows a script, with the caller of
\* doStream and the consumer of the stream acting on their own.

\* text_delta events of one scripted text block.
MaxDeltas == 2
\* input_json_delta events of one scripted tool use.
MaxFragments == 2

TextStartMsg ==
    StreamEvent([type |-> "content_block_start", index |-> 0,
                 content_block |-> [type |-> "text"]])
TextDeltaMsg(x) ==
    StreamEvent([type |-> "content_block_delta", index |-> 0,
                 delta |-> [type |-> "text_delta", text |-> x]])
ThinkingDeltaMsg ==
    StreamEvent([type |-> "content_block_delta", index |-> 0,
                 delta |-> [type |-> "thinking_delta", thinking |-> "hmm"]])
ToolStartMsg(i, t) ==
    StreamEvent([type |-> "content_block_start", index |-> i,
                 content_block |-> [type |-> "tool_use", id |-> t,
                                    name |-> ToolNameOf(t)]])
FragmentMsg(i, f) ==
    StreamEvent([type |-> "content_block_delta", index |-> i,
                 delta |-> [type |-> "input_json_delta", partial_json |-> f]])
StopMsg(i) == StreamEvent([type |-> "content_block_stop", index |-> i])
AssistantMsg(content) == [type |-> "assistant", message |-> [content |-> content]]

\* The sequences over S of length lo to hi.
SeqsOf(S, lo, hi) == UNION { [1 .. n -> S] : n \in lo .. hi }

\* The results that end a script: any subtype and usage, no denial.
ScriptResults == { m \in ResultMsgs : m.permission_denials = << >> }
\* A script: the messages the generator yields, and how it ends after them.
Script(ms) == [mode |-> "scripted", messages |-> ms, ending |-> "done"]

\* A text block: its start, one to MaxDeltas text deltas, its stop, a result.
TextScripts ==
    { Script(<< TextStartMsg >> \o [j \in 1 .. Len(xs) |-> TextDeltaMsg(xs[j])]
             \o << StopMsg(0), r >>) :
        xs \in SeqsOf({"Hello", " world"}, 1, MaxDeltas), r \in ScriptResults }

\* The fragments that are not JSON on their own.
BrokenFragments == { f \in Fragments : f # << >> /\ ~isParsableJson(f) }
\* A tracked tool use: its start, fragments none of which is JSON on its own,
\* the complete assistant message carrying the same tool id, a result.
ToolScripts ==
    { Script(<< ToolStartMsg(i, t) >> \o [j \in 1 .. Len(fs) |-> FragmentMsg(i, fs[j])]
             \o << AssistantMsg(<< ToolUseBlock(t, input) >>), r >>) :
        i \in Indexes, t \in ToolIds, fs \in SeqsOf(BrokenFragments, 1, MaxFragments),
        input \in ToolInputs, r \in PlainResultMsgs }

\* Reasoning only: thinking deltas, then a result.
ThinkingScripts ==
    { Script([j \in 1 .. n |-> ThinkingDeltaMsg] \o << r >>) :
        n \in 1 .. MaxDeltas, r \in PlainResultMsgs }

\* Messages between the start of a tool use and the end of a script.
MaxToolSteps == 3
\* What may follow the start of the tool use t1 at index 0: a fragment for the
\* index, a fragment for an index nothing tracks, a stop of either index, the
\* start of the tool use t2 at the same index (the indexes of the content
\* blocks start anew with each assistant turn).
ToolSteps ==
    { FragmentMsg(0, f) : f \in Fragments }
    \cup { FragmentMsg(1, FragHead), StopMsg(0), StopMsg(1), ToolStartMsg(0, "t2") }
\* The complete assistant message that may close the turn.
TurnEnds ==
    { << >>,
      << AssistantMsg(<< ToolUseBlock("t1", "obj_a1") >>) >>,
      << AssistantMsg(<< ToolUseBlock("t2", Null) >>) >>,
      << AssistantMsg(<< TextBlock, ToolUseBlock("t1", "obj_a1") >>) >> }
\* A tool use followed step by step: its start, one to MaxToolSteps steps, the
\* complete assistant message or none, a result.
SteppedScripts ==
    { Script(<< ToolStartMsg(0, "t1") >> \o steps \o turnEnd \o << r >>) :
        steps \in SeqsOf(ToolSteps, 1, MaxToolSteps), turnEnd \in TurnEnds,
        r \in { m \in PlainResultMsgs : m.subtype = "success" } }

Scripts == TextScripts \cup ToolScripts \cup ThinkingScripts \cup SteppedScripts

\* The locals of a doStream invocation that has enqueued stream-start and
\* awaits the first message.
StreamStarted ==
    /\ call = "doStream"
    /\ pc = "loop"
    /\ received = 0
    /\ upstreamEnd = NotEnded
    /\ seenToolIds = {}
    /\ out = Caused(StartEvents, 0)
    /\ closeCalls = 0
    /\ hasStartedTextBlock = FALSE
    /\ hasStartedThinkingBlock = FALSE
    /\ toolBlockIds = << >>
    /\ toolCalls = << >>
    /\ finishReason = "unknown"
    /\ usage = [inputTokens |-> 0, outputTokens |-> 0, totalTokens |-> 0]
    /\ warnings = << >>
    /\ messages = << >>
    /\ resultMessage = [type |-> "null"]
    /\ ret = [status |-> "pending"]
    /\ options = DefaultOptions
    /\ settings = DefaultSettings
    /\ claudeCodeOptions = StreamOptions(settings, RestOptions(options))
    /\ queries = << QueryCall(claudeCodeOptions) >>
    /\ aborted = FALSE
    /\ delivered = 0

\* One doStream invocation whose upstream follows a script.
ScenarioInit ==
    /\ StreamStarted
    /\ script \in Scripts
    /\ sid = 1
    /\ parked = NoSession

\* new ReadableStream(source) without a queuing strategy: the default
\* highWaterMark.
HighWaterMark == 1

\* The consumer reads the next output event from the stream.
ConsumerReads ==
    /\ call = "doStream"
    /\ delivered < Len(out)
    /\ delivered' = delivered + 1
    /\ UNCHANGED << call, pc, received, upstreamEnd, seenToolIds, out, closeCalls,
                    streamLocals, genLocals, options, settings, claudeCodeOptions,
                    queries, script, aborted, sid, parked >>

\* The caller aborts options.abortSignal.  doStream never reads the signal,
\* and the AbortController it hands to query() is its own: nothing else changes.
CallerAborts ==
    /\ call = "doStream"
    /\ ~aborted
    /\ closeCalls = 0
    /\ aborted' = TRUE
    /\ UNCHANGED << call, pc, received, upstreamEnd, seenToolIds, out, closeCalls,
                    streamLocals, genLocals, options, settings, claudeCodeOptions,
                    queries, script, delivered, sid, parked >>

ScenarioNext ==
    \/ ContentBlockStart
    \/ TextDelta
    \/ ThinkingDelta
    \/ InputJsonDelta
    \/ ContentBlockStop
    \/ AssistantMessage
    \/ ResultMessage
    \/ AfterBreak
    \/ ConsumerReads
    \/ CallerAborts

ScenarioSpec == ScenarioInit /\ [][ScenarioNext]_vars

----------------------------------------------------------------------------
\* One doStream invocation whose upstream yields complete user messages.

\* User messages a script may hold in a row.
MaxUserMessages == 2
\* What the session has handled before the user messages arrive: nothing, a
\* text block start, or a tool use the stream completed.
TurnPrefixes ==
    { << >>, << TextStartMsg >>,
      << ToolStartMsg(0, "t1"), FragmentMsg(0, FragWhole) >> }
\* A prefix, one to MaxUserMessages user messages, a result.
TurnScripts ==
    { Script(prefix \o users \o << r >>) :
        prefix \in TurnPrefixes, users \in SeqsOf(UserMsgs, 1, MaxUserMessages),
        r \in { m \in PlainResultMsgs : m.subtype = "success" } }

TurnInit ==
    /\ StreamStarted
    /\ script \in TurnScripts
    /\ sid = 1
    /\ parked = NoSession

TurnNext ==
    \/ ContentBlockStart
    \/ InputJsonDelta
    \/ UserMessage
    \/ ResultMessage
    \/ AfterBreak

TurnSpec == TurnInit /\ [][TurnNext]_vars

----------------------------------------------------------------------------
\* Two doStream invocations whose start() functions take turns at their awaits.

\* The results that end the script of one of two sessions: success, with no or
\* one permission denial.
IsolationResults ==
    { m \in ResultMsgs : /\ m.subtype = "success"
                         /\ m.usage = PlainUsage
                         /\ Len(m.permission_denials) <= 1 }

\* The scripts of the two sessions: a text block, reasoning, and a tool use
\* whose fragments do or do not add up to JSON.
IsolationScripts ==
    { Script(<< TextStartMsg >> \o [j \in 1 .. n |-> TextDeltaMsg("Hello")]
             \o << StopMsg(0), r >>) :
        n \in 1 .. MaxDeltas, r \in IsolationResults }
    \cup { Script([j \in 1 .. n |-> ThinkingDeltaMsg] \o << r >>) :
             n \in 1 .. MaxDeltas, r \in IsolationResults }
    \cup { Script(<< ToolStartMsg(i, t) >> \o [j \in 1 .. Len(fs) |-> FragmentMsg(i, fs[j])]
                  \o << AssistantMsg(<< ToolUseBlock(t, "obj_a1") >>), r >>) :
             i \in Indexes, t \in ToolIds,
             fs \in {<< FragHead >>, << FragHead, FragTail >>},
             r \in IsolationResults }

\* The closure of the invocation the variables show: the locals doStream
\* declares, the position of its start(), its stream and its upstream.
Session ==
    [pc |-> pc, received |-> received, upstreamEnd |-> upstreamEnd,
     seenToolIds |-> seenToolIds, out |-> out, closeCalls |-> closeCalls,
     hasStartedTextBlock |-> hasStartedTextBlock,
     hasStartedThinkingBlock |-> hasStartedThinkingBlock,
     toolBlockIds |-> toolBlockIds, toolCalls |-> toolCalls,
     finishReason |-> finishReason, usage |-> usage, warnings |-> warnings,
     script |-> script]

\* The closure of an invocation that has enqueued stream-start and awaits the
\* first message of the script s.
NewSession(s) ==
    [pc |-> "loop", received |-> 0, upstreamEnd |-> NotEnded,
     seenToolIds |-> {}, out |-> Caused(StartEvents, 0), closeCalls |-> 0,
     hasStartedTextBlock |-> FALSE, hasStartedThinkingBlock |-> FALSE,
     toolBlockIds |-> << >>, toolCalls |-> << >>,
     finishReason |-> "unknown",
     usage |-> [inputTokens |-> 0, outputTokens |-> 0, totalTokens |-> 0],
     warnings |-> << >>, script |-> s]

\* Two invocations of doStream have returned their streams.
IsolationInit ==
    \E s1 \in IsolationScripts, s2 \in IsolationScripts :
        /\ StreamStarted
        /\ script = s1
        /\ sid = 1
        /\ parked = NewSession(s2)

\* A switch that leaves the open-text flag where it is: one flag for the
\* process instead of one per invocation.
SwitchSharedTextFlag ==
    /\ call = "doStream"
    /\ parked.pc # "none"
    /\ parked' = Session
    /\ sid' = 3 - sid
    /\ pc' = parked.pc
    /\ received' = parked.received
    /\ upstreamEnd' = parked.upstreamEnd
    /\ seenToolIds' = parked.seenToolIds
    /\ out' = parked.out
    /\ closeCalls' = parked.closeCalls
    /\ hasStartedTextBlock' = hasStartedTextBlock
    /\ hasStartedThinkingBlock' = parked.hasStartedThinkingBlock
    /\ toolBlockIds' = parked.toolBlockIds
    /\ toolCalls' = parked.toolCalls
    /\ finishReason' = parked.finishReason
    /\ usage' = parked.usage
    /\ warnings' = parked.warnings
    /\ script' = parked.script
    /\ UNCHANGED << call, genLocals, options, settings, claudeCodeOptions, queries,
                    aborted, delivered >>

\* The start() of one invocation is suspended at its await and the start() of
\* the other resumes: each finds the locals of its own closure.
Switch ==
    /\ call = "doStream"
    /\ parked.pc # "none"
    /\ parked' = Session
    /\ sid' = 3 - sid
    /\ pc' = parked.pc
    /\ received' = parked.received
    /\ upstreamEnd' = parked.upstreamEnd
    /\ seenToolIds' = parked.seenToolIds
    /\ out' = parked.out
    /\ closeCalls' = parked.closeCalls
    /\ hasStartedTextBlock' = parked.hasStartedTextBlock
    /\ hasStartedThinkingBlock' = parked.hasStartedThinkingBlock
    /\ toolBlockIds' = parked.toolBlockIds
    /\ toolCalls' = parked.toolCalls
    /\ finishReason' = parked.finishReason
    /\ usage' = parked.usage
    /\ warnings' = parked.warnings
    /\ script' = parked.script
    /\ UNCHANGED << call, genLocals, options, settings, claudeCodeOptions, queries,
                    aborted, delivered >>

IsolationNext ==
    \/ ContentBlockStart
    \/ TextDelta
    \/ ThinkingDelta
    \/ InputJsonDelta
    \/ ContentBlockStop
    \/ AssistantMessage
    \/ ResultMessage
    \/ AfterBreak
    \/ Switch

IsolationSpec == IsolationInit /\ [][IsolationNext]_vars

----------------------------------------------------------------------------
\* convertPromptToClaudeCodeFormat.  A string is the sequence of its pieces:
\* the texts of the prompt, and the literals of the code.

\* Messages of a prompt, parts of a content array, tools of a tool list.
MaxPromptMessages == 2
MaxParts == 2
MaxTools == 1

TextPart(x) == [type |-> "text", text |-> x]
Parts == { TextPart("Look at this"), TextPart("and this"), [type |-> "image"] }
\* A content that is a string, and a content that is an array of parts.
StringContent(x) == [kind |-> "string", value |-> x]
PartsContent(ps) == [kind |-> "parts", parts |-> ps]
PromptMessages ==
    { [role |-> r, content |-> StringContent("Hello")] : r \in {"user", "assistant"} }
    \cup { [role |-> "user", content |-> PartsContent(ps)] :
             ps \in SeqsOf(Parts, 0, MaxParts) }
Prompts == SeqsOf(PromptMessages, 0, MaxPromptMessages)
ToolDefinitions ==
    { [name |-> "Read", description |-> "Reads a file", parameters |-> "params_path"],
      [name |-> "Bash", description |-> "Runs a command", parameters |-> "params_empty"] }
ToolLists == SeqsOf(ToolDefinitions, 0, MaxTools)

\* JSON.stringify(t.parameters, null, 2)
StringifyIndented(parameters) ==
    IF parameters = "params_empty" THEN "{}"
    ELSE "{\n  \"path\": \"string\"\n}"

RECURSIVE JoinStrings(_, _)
\* Array.prototype.join of strings: their pieces with sep between neighbours.
JoinStrings(strings, sep) ==
    IF strings = << >> THEN << >>
    ELSE IF Len(strings) = 1 THEN strings[1]
    ELSE strings[1] \o << sep >> \o JoinStrings(Tail(strings), sep)

\* The texts of all the parts, '' for a part without text.
textPartsUnfiltered(content) ==
    JoinStrings([i \in 1 .. Len(content) |->
                    IF "text" \in DOMAIN content[i]
                    THEN << content[i].text >> ELSE << >>], " ")

\* message.content.filter(text).map(part.text).join(' ')
textParts(content) ==
    LET texts == SelectSeq(content, LAMBDA part : part.type = "text")
    IN  JoinStrings([i \in 1 .. Len(texts) |->
                        IF "text" \in DOMAIN texts[i]
                        THEN << texts[i].text >> ELSE << >>], " ")

\* One message of the prompt as '<role>: <text>'.
PromptLine(message) ==
    << message.role, ": " >>
    \o (IF message.content.kind = "string"
        THEN << message.content.value >>
        ELSE textParts(message.content.parts))

\* One tool of the list as its three lines.
ToolDescription(t) ==
    << "Tool: ", t.name, "\nDescription: ", t.description,
       "\nParameters: ", StringifyIndented(t.parameters) >>

\* tools is an absent key of the record for undefined.
convertPromptToClaudeCodeFormat(prompt, args) ==
    LET promptText ==
            JoinStrings([i \in 1 .. Len(prompt) |-> PromptLine(prompt[i])], "\n")
    IN  IF "tools" \in DOMAIN args /\ Len(args.tools) > 0
        THEN promptText
             \o << "\n\nAvailable tools:\n" >>
             \o JoinStrings([i \in 1 .. Len(args.tools) |->
                                ToolDescription(args.tools[i])], "\n\n")
             \o << "\n\nUse these tools when appropriate by calling them in your response." >>
        ELSE promptText

\* The arguments of a call of convertPromptToClaudeCodeFormat.
PromptArguments ==
    { [prompt |-> p] : p \in Prompts }
    \cup { [prompt |-> p, tools |-> ts] : p \in Prompts, ts \in ToolLists }

ConvertInit ==
    /\ call = "convertPromptToClaudeCodeFormat"
    /\ pc = "called"
    /\ options \in PromptArguments
    /\ settings = DefaultSettings
    /\ claudeCodeOptions = NotBuilt
    /\ queries = << >>
    /\ received = 0
    /\ upstreamEnd = NotEnded
    /\ seenToolIds = {}
    /\ out = << >>
    /\ closeCalls = 0
    /\ hasStartedTextBlock = FALSE
    /\ hasStartedThinkingBlock = FALSE
    /\ toolBlockIds = << >>
    /\ toolCalls = << >>
    /\ finishReason = "unknown"
    /\ usage = [inputTokens |-> 0, outputTokens |-> 0, totalTokens |-> 0]
    /\ warnings = << >>
    /\ messages = << >>
    /\ resultMessage = [type |-> "null"]
    /\ ret = [status |-> "pending"]
    /\ script = FreeUpstream
    /\ aborted = FALSE
    /\ delivered = 0
    /\ sid = 1
    /\ parked = NoSession

\* The function runs and returns promptText.
ConvertPrompt ==
    /\ call = "convertPromptToClaudeCodeFormat"
    /\ pc = "called"
    /\ ret' = [status |-> "returned",
               value |-> convertPromptToClaudeCodeFormat(options.prompt, options)]
    /\ pc' = "done"
    /\ UNCHANGED << call, received, upstreamEnd, seenToolIds, out, closeCalls,
                    streamLocals, messages, resultMessage, context >>

ConvertNext == ConvertPrompt
ConvertSpec == ConvertInit /\ [][ConvertNext]_vars

----------------------------------------------------------------------------
\* Reading the output sequence.

Streaming == call = "doStream"
Positions == 1 .. Len(out)
OfType(t) == { i \in Positions : out[i].type = t }
\* The events the handling of the n-th upstream message (or of its end) caused.
CausedBy(n) == { i \in Positions : out[i].at = n }

StartTypes == {"text-start", "reasoning-start", "tool-input-start"}
EndOf(t) == IF t = "text-start" THEN "text-end"
            ELSE IF t = "reasoning-start" THEN "reasoning-end" ELSE "tool-input-end"
\* Starts minus ends of the block (t, id) among the first k output events.
Depth(t, id, k) ==
    Cardinality({ i \in 1 .. k : out[i].type = t /\ out[i].id = id })
    - Cardinality({ i \in 1 .. k : out[i].type = EndOf(t) /\ out[i].id = id })
BlockIds == { textBlockId, thinkingBlockId } \cup ToolIds
\* The block (t, id) is open after the first k output events: its latest
\* start or end among them is a start.
OpenAfter(t, id, k) ==
    \E i \in 1 .. k :
        /\ out[i].type = t /\ out[i].id = id
        /\ \A j \in (i + 1) .. k : ~(out[j].type = EndOf(t) /\ out[j].id = id)
ToolCallsFor(id) == { i \in OfType("tool-call") : out[i].toolCallId = id }

----------------------------------------------------------------------------
\* C1 (block closure, P1): starts and ends of every block pair up -- no start
\* while the block is open, no end while it is closed -- and once the output
\* stream is closed every started block has got its end.
C1_BlockClosure ==
    Streaming =>
        \A t \in StartTypes : \A id \in BlockIds :
            /\ \A k \in Positions : Depth(t, id, k) \in {0, 1}
            /\ pc = "done" => Depth(t, id, Len(out)) = 0

\* C2 (tool-call uniqueness, P2): no tool id ever has two tool-call events, and
\* once the session is over every tool id the upstream announced has exactly one.
C2_ToolCallUniqueness ==
    Streaming =>
        /\ \A id \in ToolIds : Cardinality(ToolCallsFor(id)) <= 1
        /\ pc = "done" =>
              \A id \in seenToolIds : Cardinality(ToolCallsFor(id)) = 1

C4_ClosedOnceAtEnd ==
    /\ [](Streaming => closeCalls <= 1 /\ (pc = "done" <=> closeCalls = 1))
    /\ [][(Streaming /\ closeCalls > 0) =>
            (out' = out /\ closeCalls' = closeCalls /\ received' = received)]_vars
    /\ ((Streaming /\ upstreamEnd.kind # "none") ~> (closeCalls = 1))

\* A session closed after the break that follows a result.
C4_Witness ==
    /\ Streaming /\ pc = "done" /\ closeCalls = 1
    /\ upstreamEnd.kind = "result" /\ received > 1

\* The output events before those the end of the upstream caused.
BeforeEnd == Cardinality({ i \in Positions : out[i].at <= received })

\* C5: when the upstream generator throws, an open text block gets its
\* text-end, an open reasoning block its reasoning-end, then one error event
\* carrying the thrown error is enqueued; the stream is closed and no further
\* message is received.
C5_ThrowClosesBlocks ==
    /\ [](Streaming /\ upstreamEnd.kind = "throw" =>
            LET closing == CausedBy(received + 1)
                textEnds == closing \cap OfType("text-end")
                reasoningEnds == closing \cap OfType("reasoning-end")
            IN  /\ pc = "done"
                /\ OfType("error") = { Len(out) }
                /\ out[Len(out)].error = upstreamEnd.error
                /\ OfType("finish") = {}
                /\ closing = textEnds \cup reasoningEnds \cup { Len(out) }
                /\ Cardinality(textEnds) =
                      IF OpenAfter("text-start", textBlockId, BeforeEnd) THEN 1 ELSE 0
                /\ Cardinality(reasoningEnds) =
                      IF OpenAfter("reasoning-start", thinkingBlockId, BeforeEnd)
                      THEN 1 ELSE 0)
    /\ [][(Streaming /\ upstreamEnd.kind = "throw") =>
            (received' = received /\ out' = out)]_vars

\* The upstream threw while a text block and a reasoning block were open.
C5_Witness ==
    /\ Streaming /\ upstreamEnd.kind = "throw" /\ upstreamEnd.error = "E2"
    /\ CausedBy(received + 1) \cap OfType("text-end") # {}
    /\ CausedBy(received + 1) \cap OfType("reasoning-end") # {}

\* C6: an upstream that is exhausted without a result is a failure: an error
\* event is enqueued before the stream is closed.
C6_ExhaustionIsAnError ==
    (Streaming /\ upstreamEnd.kind = "done") => OfType("error") # {}

\* C7: the first result message yields exactly one finish event, with
\* mapFinishReason of its subtype and with its usage; the loop ends there: no
\* later message is received and no later event enqueued.
C7_FinishOnFirstResult ==
    /\ [](Streaming /\ upstreamEnd.kind = "result" =>
            LET result == upstreamEnd.message
                finish == out[Len(out)]
            IN  /\ OfType("finish") = { Len(out) }
                /\ OfType("error") = {}
                /\ finish.at = received
                /\ finish.finishReason = mapFinishReason(result)
                /\ finish.usage.inputTokens = result.usage.input_tokens
                /\ finish.usage.outputTokens = result.usage.output_tokens
                /\ pc \in {"break", "done"})
    /\ [](Streaming /\ OfType("finish") # {} => upstreamEnd.kind = "result")
    /\ [][(Streaming /\ upstreamEnd.kind = "result") =>
            (received' = received /\ out' = out /\ upstreamEnd' = upstreamEnd)]_vars

\* A result of subtype error_max_turns has ended a session of other messages.
C7_Witness ==
    /\ Streaming /\ upstreamEnd.kind = "result" /\ received = 3
    /\ upstreamEnd.message.subtype = "error_max_turns"
    /\ out[Len(out)].finishReason = "length"
    /\ pc = "done"

\* The mapping the claim states.
FinishReasonTable(subtype) ==
    IF subtype = "error_max_turns" THEN "length"
    ELSE IF subtype = "error_during_execution" THEN "error"
    ELSE "stop"

\* C8 (finish-reason totality, P4): every result, whatever its subtype, usage
\* and denials, gets the finish reason the table gives for its subtype, in the
\* finish event of doStream and in the object doGenerate returns.
C8_FinishReasonTotal ==
    /\ (Streaming /\ upstreamEnd.kind = "result") =>
          /\ finishReason = FinishReasonTable(upstreamEnd.message.subtype)
          /\ out[Len(out)].type = "finish"
          /\ out[Len(out)].finishReason = FinishReasonTable(upstreamEnd.message.subtype)
    /\ (call = "doGenerate" /\ pc = "done" /\ upstreamEnd.kind = "result"
          /\ "usage" \in DOMAIN resultMessage) =>
          \/ ret = Rethrown("TypeError")
          \/ /\ ret.status = "returned"
             /\ ret.value.finishReason = FinishReasonTable(resultMessage.subtype)

\* doGenerate has returned for a result of an unrecognised subtype with denials.
C8_Witness ==
    /\ call = "doGenerate" /\ ret.status = "returned"
    /\ resultMessage.subtype = "error_other"
    /\ resultMessage.permission_denials # << >>
    /\ ret.value.finishReason = "stop"

\* The usage the claim states for a result message.
AdditiveUsage(u, result) ==
    /\ u.inputTokens = result.usage.input_tokens
    /\ u.outputTokens = result.usage.output_tokens
    /\ u.totalTokens = u.inputTokens + u.outputTokens

\* C9 (usage additivity, P3): the usage of the finish event of doStream and
\* the usage doGenerate returns copy the result's input and output tokens and
\* total them.
C9_UsageAdditive ==
    /\ (Streaming /\ upstreamEnd.kind = "result") =>
          /\ out[Len(out)].type = "finish"
          /\ AdditiveUsage(out[Len(out)].usage, upstreamEnd.message)
    /\ (call = "doGenerate" /\ ret.status = "returned") =>
          AdditiveUsage(ret.value.usage, resultMessage)

\* A finish event for a result with different input and output token counts.
C9_Witness ==
    /\ Streaming /\ upstreamEnd.kind = "result"
    /\ upstreamEnd.message.usage.input_tokens = 0
    /\ upstreamEnd.message.usage.output_tokens = MaxTokens
    /\ out[Len(out)].usage.totalTokens = MaxTokens

\* The warnings in hand once a result has been handled, and that result.
HandledResult ==
    \/ Streaming /\ upstreamEnd.kind = "result"
    \/ call = "doGenerate" /\ ret.status = "returned"
WarningsInHand == IF Streaming THEN warnings ELSE ret.value.warnings
DenialsInHand == upstreamEnd.message.permission_denials

\* The message parts for a list of names: the heading, then the names with
\* ", " between neighbours.
ListsNames(message, names) ==
    /\ Len(message) = 2 * Len(names)
    /\ message[1] = "Permission denied for tools: "
    /\ \A i \in 1 .. Len(names) : message[2 * i] = names[i]
    /\ \A i \in 1 .. (Len(names) - 1) : message[2 * i + 1] = ", "

\* C10 as stated: no warning without denials, else one warning of type
\* 'other' listing the distinct denied tool names in first-seen order.
C10_DistinctNames ==
    HandledResult =>
        LET names == [i \in 1 .. Len(DenialsInHand) |-> DenialsInHand[i].tool_name]
        IN  IF names = << >> THEN WarningsInHand = << >>
            ELSE /\ Len(WarningsInHand) = 1
                 /\ WarningsInHand[1].type = "other"
                 /\ ListsNames(WarningsInHand[1].message, FirstSeen(names))

\* C10 amended: no warning without denials, else one warning of type 'other'
\* listing the tool name of every denial, in list order, repeats included.
C10_EveryDenialName ==
    HandledResult =>
        LET names == [i \in 1 .. Len(DenialsInHand) |-> DenialsInHand[i].tool_name]
        IN  IF names = << >> THEN WarningsInHand = << >>
            ELSE /\ Len(WarningsInHand) = 1
                 /\ WarningsInHand[1].type = "other"
                 /\ ListsNames(WarningsInHand[1].message, names)

\* A result with two denials of the same tool has been handled.
C10_Witness ==
    /\ HandledResult
    /\ Len(DenialsInHand) = 2
    /\ DenialsInHand[1].tool_name = DenialsInHand[2].tool_name
    /\ Len(WarningsInHand) = 1

----------------------------------------------------------------------------
\* Reading what doGenerate accumulated and returned.

Generating == call = "doGenerate"
Returned == Generating /\ ret.status = "returned"
\* The content array of an accumulated message, empty when it has none.
ContentOf(m) ==
    IF "message" \in DOMAIN m /\ "content" \in DOMAIN m.message
    THEN m.message.content ELSE << >>
\* The places <<message, block>> of the blocks of type btype in the accumulated
\* messages of type mtype.
BlockPlaces(mtype, btype) ==
    UNION { { << i, j >> : j \in { k \in 1 .. Len(ContentOf(messages[i])) :
                                      ContentOf(messages[i])[k].type = btype } } :
            i \in { n \in 1 .. Len(messages) : messages[n].type = mtype } }
BlockAt(p) == ContentOf(messages[p[1]])[p[2]]
\* Message order, then block order.
Before(p, q) == p[1] < q[1] \/ (p[1] = q[1] /\ p[2] < q[2])
Rank(places, p) == Cardinality({ q \in places : Before(q, p) }) + 1
\* Every accumulated message has the fields its SDK type declares, and every
\* tool input is one JSON.stringify accepts.
WellFormedMessages ==
    /\ \A i \in 1 .. Len(messages) :
          messages[i].type \in {"assistant", "user"} => "message" \in DOMAIN messages[i]
    /\ \A p \in BlockPlaces("assistant", "tool_use") : BlockAt(p).input # "obj_circular"
    /\ "usage" \in DOMAIN resultMessage

\* C12: when the upstream generator is exhausted without a result, or throws,
\* doGenerate ends by throwing an error that wraps the cause; it returns no
\* aggregate.
C12_GenerateFailsWithoutResult ==
    /\ (Generating /\ upstreamEnd.kind = "done") =>
          /\ pc = "done"
          /\ ret.status = "thrown"
          /\ ret.error = [wraps |-> "No result received from Claude Code"]
    /\ (Generating /\ upstreamEnd.kind = "throw") =>
          /\ pc = "done"
          /\ ret.status = "thrown"
          /\ ret.error = [wraps |-> upstreamEnd.error]
    /\ (Generating /\ pc = "done" /\ ret.status = "returned") =>
          upstreamEnd.kind = "result"

\* The upstream was exhausted after two messages and doGenerate has thrown.
C12_Witness ==
    /\ Generating /\ upstreamEnd.kind = "done" /\ received = 2
    /\ BlockPlaces("assistant", "tool_use") # {}
    /\ ret.status = "thrown"

\* C13: after a result, doGenerate returns whatever the subtype (it throws
\* only over a malformed message); the returned content is one text block
\* holding the result string when the subtype is success and the string is
\* not empty, and the empty list otherwise.
C13_ContentOnlyOnSuccess ==
    (Generating /\ pc = "done" /\ upstreamEnd.kind = "result") =>
        IF WellFormedMessages
        THEN /\ ret.status = "returned"
             /\ IF /\ resultMessage.subtype = "success"
                   /\ "result" \in DOMAIN resultMessage
                   /\ resultMessage.result # ""
                THEN ret.value.content =
                        << [type |-> "text", text |-> resultMessage.result] >>
                ELSE ret.value.content = << >>
        ELSE ret.status = "thrown"

\* doGenerate has returned a textless aggregate for a failed run.
C13_Witness ==
    /\ Returned /\ received = 3
    /\ resultMessage.subtype = "error_during_execution"
    /\ ret.value.content = << >>
    /\ ret.value.finishReason = "error"

\* C14: toolCalls holds one entry per ToolUseBlock of the accumulated assistant
\* messages and toolResults one entry, with toolName 'unknown', per
\* ToolResultBlock of the accumulated user messages, both in message order then
\* block order; the accumulation ends with the first result.
C14_ToolEntriesInOrder ==
    /\ Generating =>
          /\ Len(messages) = received
          /\ \A i \in 1 .. Len(messages) :
                messages[i].type = "result" =>
                    /\ i = Len(messages)
                    /\ resultMessage = messages[i]
                    /\ pc \in {"break", "done"}
    /\ Returned =>
          LET uses == BlockPlaces("assistant", "tool_use")
              results == BlockPlaces("user", "tool_result")
              calls == ret.value.toolCalls
              answers == ret.value.toolResults
          IN  /\ Len(calls) = Cardinality(uses)
              /\ \A p \in uses :
                    /\ calls[Rank(uses, p)].type = "tool-call"
                    /\ calls[Rank(uses, p)].toolCallId = BlockAt(p).id
                    /\ calls[Rank(uses, p)].toolName = BlockAt(p).name
              /\ Len(answers) = Cardinality(results)
              /\ \A p \in results :
                    /\ answers[Rank(results, p)].type = "tool-result"
                    /\ answers[Rank(results, p)].toolCallId = BlockAt(p).tool_use_id
                    /\ answers[Rank(results, p)].toolName = "unknown"

\* An assistant message with two tool uses and a user message with a tool
\* result were accumulated before the result.
C14_Witness ==
    /\ Returned /\ received = 3
    /\ Len(ret.value.toolCalls) = 2
    /\ Len(ret.value.toolResults) = 1
    /\ ret.value.toolResults[1].toolCallId = "t2"

----------------------------------------------------------------------------
\* The request a call makes of the upstream.

\* The call asks for schema-constrained structured output.
AsksStructuredOutput ==
    DOMAIN options \cap {"schema", "mode", "output", "outputSchema"} # {}
\* The call has gone past its entry.
Entered == pc # "called"

\* C11: a call that asks for structured output is rejected before query() is
\* invoked; a call with free-form text options only is not rejected.
C11_StructuredOutputRejected ==
    Entered =>
        IF AsksStructuredOutput
        THEN ret.status = "thrown" /\ queries = << >>
        ELSE ret.status # "thrown" /\ Len(queries) = 1

\* C20: when the call gives no maxOutputTokens, the maxTurns of the provider
\* settings is the maxTurns query() is invoked with and request.body echoes.
C20_ConfiguredMaxTurnsPassed ==
    (Entered /\ "maxTurns" \in DOMAIN settings
             /\ "maxOutputTokens" \notin DOMAIN options) =>
        /\ Len(queries) = 1
        /\ "maxTurns" \in DOMAIN queries[1].options
        /\ queries[1].options.maxTurns = settings.maxTurns
        /\ "maxTurns" \in DOMAIN claudeCodeOptions
        /\ claudeCodeOptions.maxTurns = settings.maxTurns

----------------------------------------------------------------------------
\* Reading a session whose upstream follows a script.

Scripted == Streaming /\ script.mode = "scripted"
\* The output events without the mark of their cause.
Event(i) == [k \in DOMAIN out[i] \ {"at"} |-> out[i][k]]
Emitted == [i \in 1 .. Len(out) |-> Event(i)]
\* The last message of the script: its result.
ScriptResult == script.messages[Len(script.messages)]
\* The finish event the claims state for a result message.
FinishFor(r) ==
    [type |-> "finish", finishReason |-> FinishReasonTable(r.subtype),
     usage |-> [inputTokens |-> r.usage.input_tokens,
                outputTokens |-> r.usage.output_tokens,
                totalTokens |-> r.usage.input_tokens + r.usage.output_tokens]]

\* The output the claim states for a text script: stream-start, text-start,
\* the deltas in order, text-end, finish.
ExpectedText ==
    LET deltas == SubSeq(script.messages, 2, Len(script.messages) - 2)
    IN  << [type |-> "stream-start"], [type |-> "text-start", id |-> "0"] >>
        \o [j \in 1 .. Len(deltas) |->
               [type |-> "text-delta", id |-> "0", delta |-> deltas[j].event.delta.text]]
        \o << [type |-> "text-end", id |-> "0"], FinishFor(ScriptResult) >>

\* C15: for a text-only script -- the start of a text block, n >= 1 text
\* deltas, its stop, a result -- every upstream message yields exactly its one
\* output event, and the whole output is stream-start, text-start, the n
\* text-delta events in order with the delta texts unmodified and the id of the
\* text-start, text-end, and finish with the mapped finishReason and the usage.
C15_TextOnlySequence ==
    (Scripted /\ script \in TextScripts) =>
        /\ Emitted = SubSeq(ExpectedText, 1, received + 1)
        /\ \A i \in Positions : out[i].at = i - 1
        /\ upstreamEnd.kind = "result" => Emitted = ExpectedText

\* Scenario A with two deltas has run to its close.
C15_Witness ==
    /\ Scripted /\ script \in TextScripts /\ pc = "done"
    /\ Len(script.messages) = 5
    /\ script.messages[2].event.delta.text = "Hello"
    /\ script.messages[3].event.delta.text = " world"
    /\ ScriptResult.usage.output_tokens = 1
    /\ Len(out) = 6

RECURSIVE Joined(_)
\* The concatenation of the fragments fs.
Joined(fs) == IF fs = << >> THEN << >> ELSE Head(fs) \o Joined(Tail(fs))
\* The parts of a tool script: the tool id, the fragments, the input of the
\* assistant block, the position of the assistant message.
ScriptToolId == script.messages[1].event.content_block.id
ScriptFragments ==
    [j \in 1 .. (Len(script.messages) - 3) |->
        script.messages[j + 1].event.delta.partial_json]
ScriptAssistantAt == Len(script.messages) - 1
ScriptInput == script.messages[ScriptAssistantAt].message.content[1].input
\* The fragments up to which the accumulated arguments are JSON.
Completing ==
    { n \in 1 .. Len(ScriptFragments) : JsonParses(Joined(SubSeq(ScriptFragments, 1, n))) }
FirstCompleting == CHOOSE n \in Completing : \A m \in Completing : n <= m
\* The tool script has been followed up to its assistant message.
AssistantHandled ==
    Scripted /\ script \in ToolScripts /\ received >= ScriptAssistantAt

\* C16 as stated: fragments that are not JSON on their own yield no
\* tool-call; the one tool-call of the id is caused by the assistant message
\* and carries the serialization of the input of its block.
C16_FallbackIsTheSource ==
    AssistantHandled =>
        /\ Cardinality(ToolCallsFor(ScriptToolId)) = 1
        /\ \A c \in ToolCallsFor(ScriptToolId) :
              /\ out[c].at = ScriptAssistantAt
              /\ out[c].input = StringifyInput(ScriptInput)

\* C16 amended: the id gets one tool-call.  When the fragments accumulated so
\* far become JSON, the fragment that completes them causes it, it carries the
\* accumulated string, and the assistant message adds none; when they never
\* do, the assistant message causes it and it carries the serialization of
\* the input of its block.
C16_OneCallFromWhichCompletes ==
    AssistantHandled =>
        /\ Cardinality(ToolCallsFor(ScriptToolId)) = 1
        /\ \A c \in ToolCallsFor(ScriptToolId) :
              IF Completing # {}
              THEN /\ out[c].at = FirstCompleting + 1
                   /\ out[c].input =
                         Joined(SubSeq(ScriptFragments, 1, FirstCompleting))
              ELSE /\ out[c].at = ScriptAssistantAt
                   /\ out[c].input = StringifyInput(ScriptInput)

\* Scenario C has run to its close: '{"a":' then '1}', then the assistant
\* message; the tool-call came with the second fragment.
C16_Witness ==
    /\ AssistantHandled /\ pc = "done"
    /\ ScriptFragments = << FragHead, FragTail >>
    /\ ScriptInput = "obj_a1"
    /\ \E c \in ToolCallsFor(ScriptToolId) : out[c].at = 3

----------------------------------------------------------------------------
\* The caller and the consumer of a doStream session.

\* C18: once the caller has aborted the signal of the request, the loop takes
\* no further message from the upstream, and when the output sequence closes
\* no text or reasoning block is left open.
C18_AbortStopsTheLoop ==
    [][aborted => /\ received' = received
                  /\ Len(out') > Len(out) =>
                        \A i \in (Len(out) + 1) .. Len(out') :
                            out'[i].type \in {"text-end", "reasoning-end"}]_vars

\* C19: a message is taken from the upstream only while the output events
\* enqueued and not yet read are fewer than the high-water mark of the stream.
C19_ReceivesOnlyWhenDrained ==
    [][received' > received => Len(out) - delivered < HighWaterMark]_vars

----------------------------------------------------------------------------
\* Two sessions taking turns.

\* Two doStream invocations are under way.
Isolating == Streaming /\ parked.pc # "none"
\* The closure of the invocation k.
SessionNo(k) == IF k = sid THEN Session ELSE parked
\* The events of an output sequence o without the mark of their cause.
Events(o) == [i \in 1 .. Len(o) |-> [k \in DOMAIN o[i] \ {"at"} |-> o[i][k]]]

\* The output of a session that runs the script s alone: stream-start, the
\* events of its one block, finish.  A text block gives text-start, its
\* deltas, text-end; reasoning gives reasoning-start, its deltas and the
\* reasoning-end of the result; a tool use gives tool-input-start, a
\* tool-input-delta for each fragment up to the one that completes the JSON,
\* then tool-input-end and the tool-call with the accumulated string, or,
\* when no fragment completes it, the tool-call of the assistant message.
AloneOutput(s) ==
    LET ms == s.messages
        n == Len(ms)
        first == ms[1].event
        block ==
            IF first.type = "content_block_delta"
            THEN << [type |-> "reasoning-start", id |-> "thinking-0"] >>
                 \o [j \in 1 .. (n - 1) |->
                        [type |-> "reasoning-delta", id |-> "thinking-0",
                         delta |-> ms[j].event.delta.thinking]]
                 \o << [type |-> "reasoning-end", id |-> "thinking-0",
                        eventType |-> "thinking_end"] >>
            ELSE IF first.content_block.type = "text"
            THEN << [type |-> "text-start", id |-> "0"] >>
                 \o [j \in 1 .. (n - 3) |->
                        [type |-> "text-delta", id |-> "0",
                         delta |-> ms[j + 1].event.delta.text]]
                 \o << [type |-> "text-end", id |-> "0"] >>
            ELSE LET t == first.content_block.id
                     name == first.content_block.name
                     fs == [j \in 1 .. (n - 3) |-> ms[j + 1].event.delta.partial_json]
                     completing ==
                         { k \in 1 .. Len(fs) : JsonParses(Joined(SubSeq(fs, 1, k))) }
                     last == IF completing = {} THEN Len(fs)
                             ELSE CHOOSE k \in completing : \A m \in completing : k <= m
                     input == IF completing = {}
                              THEN StringifyInput(ms[n - 1].message.content[1].input)
                              ELSE Joined(SubSeq(fs, 1, last))
                 IN  << [type |-> "tool-input-start", id |-> t, toolName |-> name] >>
                     \o [j \in 1 .. last |->
                            [type |-> "tool-input-delta", id |-> t, delta |-> fs[j]]]
                     \o (IF completing = {} THEN << >>
                         ELSE << [type |-> "tool-input-end", id |-> t] >>)
                     \o << [type |-> "tool-call", toolCallId |-> t, toolName |-> name,
                            input |-> input] >>
    IN  << [type |-> "stream-start"] >> \o block \o << FinishFor(ms[n]) >>

\* C17: when two doStream sessions run interleaved, in every interleaving of
\* their upstream messages the output of each session is at every moment a
\* prefix of the output its script gives alone, and when the session is over
\* it is that output, its stream has been closed once, and its warnings are
\* those of its own result.
C17_SessionsIsolated ==
    Isolating =>
        \A k \in {1, 2} :
            LET s == SessionNo(k)
                alone == AloneOutput(s.script)
                mine == Events(s.out)
            IN  /\ Len(mine) <= Len(alone)
                /\ mine = SubSeq(alone, 1, Len(mine))
                /\ s.pc = "done" =>
                      /\ mine = alone
                      /\ s.closeCalls = 1
                      /\ s.warnings =
                            extractWarnings(s.script.messages[Len(s.script.messages)])

\* Both sessions are in the middle of a text script: one has its text block
\* open after a delta, the other has closed its own, and neither is over.
C17_Witness ==
    /\ Isolating
    /\ Session.pc = "loop" /\ parked.pc = "loop"
    /\ Session.script.messages[1] = TextStartMsg
    /\ parked.script.messages[1] = TextStartMsg
    /\ Session.received = 2 /\ Session.hasStartedTextBlock
    /\ parked.received = Len(parked.script.messages) - 1
    /\ ~parked.hasStartedTextBlock
    /\ Len(parked.script.messages[Len(parked.script.messages)].permission_denials) = 1

----------------------------------------------------------------------------
\* The result branch of doStream.

\* The session has got a result message that lists permission denials.
Denied ==
    /\ Streaming
    /\ upstreamEnd.kind = "result"
    /\ Len(upstreamEnd.message.permission_denials) > 0

\* C21: a result that lists permission denials ends the session like any
\* other: one finish event whose finishReason is the one of the subtype, no
\* error event, and the warnings array of the session -- the one stream-start
\* carries and doStream returns -- holds exactly one warning, of type 'other'.
C21_DenialsAreWarnings ==
    Denied =>
        /\ OfType("error") = {}
        /\ Cardinality(OfType("finish")) = 1
        /\ \A i \in OfType("finish") :
              out[i].finishReason = FinishReasonTable(upstreamEnd.message.subtype)
        /\ Len(warnings) = 1
        /\ warnings[1].type = "other"

\* A result of subtype error_during_execution with two denials has ended a
\* session whose stream is closed.
C21_Witness ==
    /\ Denied /\ pc = "done" /\ closeCalls = 1
    /\ upstreamEnd.message.subtype = "error_during_execution"
    /\ Len(upstreamEnd.message.permission_denials) = 2
    /\ out[Len(out)].type = "finish"

----------------------------------------------------------------------------
\* The prompt string.

\* convertPromptToClaudeCodeFormat has returned.
Converted == call = "convertPromptToClaudeCodeFormat" /\ pc = "done"
\* The positions of the text-typed parts of a content array, and how many of
\* them come before position i.
TextPlaces(ps) == { i \in 1 .. Len(ps) : ps[i].type = "text" }
TextsBefore(ps, i) == Cardinality({ j \in TextPlaces(ps) : j < i })
\* The text the claim states for a content: the string itself; for parts, the
\* k-th text part at piece 2k - 1 and a single space at each even piece.
StatedText(content) ==
    IF content.kind = "string" THEN << content.value >>
    ELSE LET ps == content.parts
             n == Cardinality(TextPlaces(ps))
             nth(k) == CHOOSE i \in TextPlaces(ps) : TextsBefore(ps, i) = k - 1
         IN  [q \in 1 .. (IF n = 0 THEN 0 ELSE 2 * n - 1) |->
                 IF q % 2 = 1 THEN ps[nth((q + 1) \div 2)].text ELSE " "]
\* The turns the claim states for a prompt: '<role>: <text>' at each odd
\* place, a newline at each even place, concatenated.
StatedTurns(prompt) ==
    LET n == Len(prompt)
    IN  Joined([q \in 1 .. (IF n = 0 THEN 0 ELSE 2 * n - 1) |->
                   IF q % 2 = 1
                   THEN << prompt[(q + 1) \div 2].role, ": " >>
                        \o StatedText(prompt[(q + 1) \div 2].content)
                   ELSE << "\n" >>])
\* A non-empty tool list was supplied.
ToolsSupplied == "tools" \in DOMAIN options /\ options.tools # << >>

\* C22: the prompt string begins with the turns in input order joined by a
\* newline, each '<role>: <text>' with the content string or the texts of the
\* text-typed parts joined by a single space; the tool catalog -- its heading,
\* every tool's name, description and serialized parameters, the closing
\* instruction -- follows if and only if a non-empty tool list was supplied.
C22_PromptRendering ==
    Converted =>
        LET turns == StatedTurns(options.prompt)
            text == ret.value
            rest == SubSeq(text, Len(turns) + 1, Len(text))
        IN  /\ Len(text) >= Len(turns)
            /\ SubSeq(text, 1, Len(turns)) = turns
            /\ (rest # << >>) <=> ToolsSupplied
            /\ ToolsSupplied =>
                  /\ rest[1] = "\n\nAvailable tools:\n"
                  /\ \A i \in 1 .. Len(options.tools) :
                        \E q \in 1 .. (Len(rest) - 5) :
                            SubSeq(rest, q, q + 5) =
                                << "Tool: ", options.tools[i].name,
                                   "\nDescription: ", options.tools[i].description,
                                   "\nParameters: ",
                                   StringifyIndented(options.tools[i].parameters) >>
                  /\ rest[Len(rest)] =
                        "\n\nUse these tools when appropriate by calling them in your response."

\* The prompt of the tests -- two text parts and an image -- after a string
\* turn, with one tool supplied.
C22_Witness ==
    /\ Converted /\ ToolsSupplied
    /\ Len(options.prompt) = 2
    /\ options.prompt[1].content.kind = "string"
    /\ options.prompt[2].content.kind = "parts"
    /\ options.prompt[2].content.parts
          = << TextPart("Look at this"), [type |-> "image"] >>
    /\ ret.value[1] = "user"
    /\ ret.value[3] = "Hello"

----------------------------------------------------------------------------
\* The open-block flags of doStream.

\* The text-start and text-end events of the output, in order.
TextMarks ==
    SelectSeq(Emitted, LAMBDA e : e.type \in {"text-start", "text-end"})

\* C23: in every output sequence text-start and text-end strictly alternate,
\* beginning with text-start: a text content_block_start received while the
\* text block is open emits nothing.
C23_TextStartOnlyWhenClosed ==
    Streaming =>
        \A q \in 1 .. Len(TextMarks) :
            TextMarks[q].type = IF q % 2 = 1 THEN "text-start" ELSE "text-end"

\* The events the step enqueues.
Enqueued == SubSeq(out', Len(out) + 1, Len(out'))

\* C24: a content_block_stop received while the reasoning block is open
\* emits reasoning-end and clears the reasoning flag, so that a thinking_delta
\* after it starts a new reasoning block.
C24_StopClosesReasoning ==
    [][(ContentBlockStop /\ hasStartedThinkingBlock) =>
          /\ \E i \in 1 .. Len(Enqueued) : Enqueued[i].type = "reasoning-end"
          /\ ~hasStartedThinkingBlock']_vars

\* The start event of the kind and id of the delta event at position i.
StartOfDelta(i) ==
    IF out[i].type = "text-delta" THEN "text-start" ELSE "reasoning-start"

\* C25: every text-delta and every reasoning-delta carries the fixed id of
\* its kind and is preceded by a start of that kind and id with no end of that
\* kind after it: the delta is emitted while its block is open.
C25_DeltasInsideOpenBlocks ==
    Streaming =>
        \A i \in OfType("text-delta") \cup OfType("reasoning-delta") :
            /\ out[i].id = IF out[i].type = "text-delta"
                           THEN textBlockId ELSE thinkingBlockId
            /\ OpenAfter(StartOfDelta(i), out[i].id, i - 1)

\* A text_delta arrived with no text block open, then a stop, then a
\* text_delta again: each delta found the block closed and opened it.
C25_Witness ==
    /\ Streaming /\ received = 3 /\ Len(out) = 6
    /\ out[2].type = "text-start" /\ out[2].at = 1
    /\ out[3].type = "text-delta" /\ out[3].at = 1
    /\ out[4].type = "text-end"
    /\ out[5].type = "text-start" /\ out[5].at = 3
    /\ out[6].type = "text-delta"

\* The step hands the first result message to the loop of doStream.
ResultArrives ==
    Streaming /\ upstreamEnd.kind # "result" /\ upstreamEnd'.kind = "result"
\* How many of the events the step enqueues are of type t.
EnqueuedOfType(t) ==
    Cardinality({ i \in 1 .. Len(Enqueued) : Enqueued[i].type = t })

\* C26: the step that handles a result enqueues text-end once if the text
\* flag is set and not at all otherwise, reasoning-end once if the reasoning
\* flag is set and not at all otherwise, then finish as its last event and
\* nothing else; it leaves both flags clear.
C26_ResultClosesWhatIsOpen ==
    [][ResultArrives =>
          /\ EnqueuedOfType("text-end") = IF hasStartedTextBlock THEN 1 ELSE 0
          /\ EnqueuedOfType("reasoning-end") = IF hasStartedThinkingBlock THEN 1 ELSE 0
          /\ EnqueuedOfType("finish") = 1
          /\ Enqueued[Len(Enqueued)].type = "finish"
          /\ Len(Enqueued) = EnqueuedOfType("text-end")
                               + EnqueuedOfType("reasoning-end") + 1
          /\ ~hasStartedTextBlock' /\ ~hasStartedThinkingBlock']_vars

\* A result, the third message, found the text block open and no reasoning
\* block ever started: it enqueued text-end and finish only.
C26_Witness ==
    /\ Streaming /\ upstreamEnd.kind = "result" /\ received = 3
    /\ ~hasStartedTextBlock /\ ~hasStartedThinkingBlock
    /\ OfType("reasoning-start") = {}
    /\ Cardinality(CausedBy(3)) = 2
    /\ \E i \in CausedBy(3) : out[i].type = "text-end"
    /\ out[Len(out)].type = "finish"

----------------------------------------------------------------------------
\* The handling of one scripted message.

\* The step takes the next message of the script from the upstream.
Taken == Scripted /\ received' = received + 1
TakenMsg == script.messages[received + 1]
\* The message is a stream event of type t.
IsStreamEvent(m, t) == m.type = "stream_event" /\ m.event.type = t
IsFragmentMsg(m) ==
    /\ IsStreamEvent(m, "content_block_delta")
    /\ m.event.delta.type = "input_json_delta"
\* The step handles a fragment for an index the correlation table tracks.
TrackedFragmentTaken ==
    /\ Taken
    /\ IsFragmentMsg(TakenMsg)
    /\ TakenMsg.event.index \in DOMAIN toolCalls
\* What the claim states for a fragment f and the tracked entry of its index:
\* a complete entry stays as it is and nothing is emitted; otherwise f is
\* appended, tool-input-delta with f is emitted, and if the accumulator has
\* become JSON the entry is marked and tool-input-end, tool-call follow.
FragmentAccumulated(index, f) ==
    LET entry == toolCalls[index]
        after == toolCalls'[index]
        arguments == entry.arguments \o f
        delta == [type |-> "tool-input-delta", id |-> entry.id, delta |-> f]
    IN  IF entry.hasFinished
        THEN Enqueued = << >> /\ toolCalls' = toolCalls
        ELSE /\ after.arguments = arguments
             /\ after.id = entry.id /\ after.name = entry.name
             /\ after.hasFinished = JsonParses(arguments)
             /\ Events(Enqueued) =
                   IF JsonParses(arguments)
                   THEN << delta,
                           [type |-> "tool-input-end", id |-> entry.id],
                           [type |-> "tool-call", toolCallId |-> entry.id,
                            toolName |-> entry.name, input |-> arguments] >>
                   ELSE << delta >>
             /\ \A i \in DOMAIN toolCalls \ {index} : toolCalls'[i] = toolCalls[i]

\* C27 as stated: every fragment for a tracked index whose entry is not
\* complete is appended and emitted as tool-input-delta, with tool-input-end
\* and tool-call after it once the accumulator is JSON; a fragment for a
\* complete entry emits nothing and changes nothing.
C27_EveryFragmentAccumulated ==
    [][TrackedFragmentTaken =>
          FragmentAccumulated(TakenMsg.event.index,
                              TakenMsg.event.delta.partial_json)]_vars

\* C27 amended: the same for every fragment that is not the empty string; an
\* empty fragment emits nothing and changes nothing.
C27_NonEmptyFragmentAccumulated ==
    [][TrackedFragmentTaken =>
          IF TakenMsg.event.delta.partial_json = << >>
          THEN Enqueued = << >> /\ toolCalls' = toolCalls
          ELSE FragmentAccumulated(TakenMsg.event.index,
                                   TakenMsg.event.delta.partial_json)]_vars

\* After the start of t1 at index 0: an empty fragment, '{"k":', then '1}',
\* which completes the arguments, have been handled.
C27_Witness ==
    /\ Scripted /\ received = 4 /\ script \in SteppedScripts
    /\ script.messages[2] = FragmentMsg(0, FragEmpty)
    /\ script.messages[3] = FragmentMsg(0, FragHead)
    /\ script.messages[4] = FragmentMsg(0, FragTail)
    /\ CausedBy(2) = {}
    /\ Cardinality(CausedBy(3)) = 1
    /\ Cardinality(CausedBy(4)) = 3
    /\ out[Len(out)].type = "tool-call"
    /\ toolCalls[0].hasFinished

\* The step handles a fragment for an index the correlation table does not
\* track.
UntrackedFragmentTaken ==
    /\ Taken
    /\ IsFragmentMsg(TakenMsg)
    /\ TakenMsg.event.index \notin DOMAIN toolCalls

\* C28: an input_json_delta whose index has no entry in the correlation table
\* is dropped: the step enqueues nothing, creates no entry, and leaves the
\* open-block flags and the entries of the table as they are.
C28_UntrackedFragmentDropped ==
    [][UntrackedFragmentTaken =>
          /\ out' = out
          /\ toolCalls' = toolCalls
          /\ toolBlockIds' = toolBlockIds
          /\ hasStartedTextBlock' = hasStartedTextBlock
          /\ hasStartedThinkingBlock' = hasStartedThinkingBlock]_vars

\* After the start of t1 at index 0 and '{"k":' for it, a fragment for
\* index 1 has been handled: the entry of index 0 is there, index 1 has none.
C28_Witness ==
    /\ Scripted /\ received = 3 /\ script \in SteppedScripts
    /\ script.messages[2] = FragmentMsg(0, FragHead)
    /\ script.messages[3] = FragmentMsg(1, FragHead)
    /\ DOMAIN toolCalls = {0}
    /\ toolCalls[0].arguments = FragHead
    /\ CausedBy(3) = {}

\* The output events of type t that carry the tool id.
ToolEvents(t, id) == { i \in OfType(t) : out[i].id = id }

\* C29: no tool id has more tool-input-end events than tool-input-start
\* events: once a content_block_stop has ended the input of an entry that is
\* not JSON, no later stop or fragment for the index ends it again.
C29_OneInputEndPerStart ==
    Streaming =>
        \A id \in ToolIds :
            Cardinality(ToolEvents("tool-input-end", id))
                <= Cardinality(ToolEvents("tool-input-start", id))

\* The step handles a complete assistant message.
AssistantTaken == Taken /\ TakenMsg.type = "assistant"
\* The correlation table holds an entry with the tool id marked complete.
MarkedComplete(id) ==
    \E i \in DOMAIN toolCalls : toolCalls[i].id = id /\ toolCalls[i].hasFinished
\* The ToolUseBlocks of a content array the table does not hold as complete.
OpenToolUses(content) ==
    SelectSeq(content, LAMBDA b : b.type = "tool_use" /\ ~MarkedComplete(b.id))

----------------------------------------------------------------------------
\* The correlation table over a session.

\* The tool-call at position i came from the fallback: the event before it is
\* not the tool-input-end of its id caused by the same message.
FallbackCallAt(i) ==
    /\ out[i].type = "tool-call"
    /\ ~(/\ out[i - 1].type = "tool-input-end"
          /\ out[i - 1].id = out[i].toolCallId
          /\ out[i - 1].at = out[i].at)
\* The tool id was registered by a tool_use content_block_start before
\* position i.
TrackedBefore(id, i) ==
    \E j \in 1 .. (i - 1) : out[j].type = "tool-input-start" /\ out[j].id = id

\* C31: once the fallback has emitted the tool-call of a tracked tool id, no
\* later message -- a fragment or a stop for the index, an assistant message
\* repeating the id -- causes another tool-call for that id.
C31_FallbackCompletesEntry ==
    Streaming =>
        \A i \in OfType("tool-call") :
            (FallbackCallAt(i) /\ TrackedBefore(out[i].toolCallId, i)) =>
                \A j \in OfType("tool-call") :
                    (j > i /\ out[j].at > out[i].at) =>
                        out[j].toolCallId # out[i].toolCallId

\* The tool ids a tool_use content_block_start has registered so far.
Registered == { out[i].id : i \in OfType("tool-input-start") }

\* C32: every tool id a tool_use content_block_start has registered keeps an
\* entry in the correlation table for the rest of the session, also after a
\* later tool_use content_block_start with the same index and another id.
C32_EntriesStay ==
    Streaming =>
        \A id \in Registered : \E i \in DOMAIN toolCalls : toolCalls[i].id = id

\* The step handles a tool_use content_block_start.
ToolStartTaken ==
    /\ Taken
    /\ IsStreamEvent(TakenMsg, "content_block_start")
    /\ TakenMsg.event.content_block.type = "tool_use"
\* The step handles a fragment or a stop for an index the table tracks.
TrackedIndexTaken ==
    /\ Taken
    /\ \/ IsStreamEvent(TakenMsg, "content_block_delta")
       \/ IsStreamEvent(TakenMsg, "content_block_stop")
    /\ TakenMsg.event.index \in DOMAIN toolCalls
\* The tool id an enqueued tool event carries.
ToolIdOf(e) == IF e.type = "tool-call" THEN e.toolCallId ELSE e.id
ToolEventTypes == {"tool-input-start", "tool-input-delta", "tool-input-end", "tool-call"}

\* C33: the step that handles a tool_use content_block_start with an index
\* maps the index to the tool id, sets the entry of the index to the id and
\* name with empty arguments and not complete, and enqueues one
\* tool-input-start with the id and the name and nothing else; every tool
\* event a later fragment or stop for the index enqueues carries the id of
\* the entry, which is the id the index is mapped to.
C33_ToolStartRegisters ==
    /\ [][ToolStartTaken =>
             LET index == TakenMsg.event.index
                 block == TakenMsg.event.content_block
             IN  /\ toolBlockIds'[index] = block.id
                 /\ toolCalls'[index] = [id |-> block.id, name |-> block.name,
                                         arguments |-> << >>, hasFinished |-> FALSE]
                 /\ Events(Enqueued) =
                       << [type |-> "tool-input-start", id |-> block.id,
                           toolName |-> block.name] >>]_vars
    /\ [][TrackedIndexTaken =>
             \A q \in 1 .. Len(Enqueued) :
                 Enqueued[q].type \in ToolEventTypes =>
                     /\ ToolIdOf(Enqueued[q]) = toolCalls[TakenMsg.event.index].id
                     /\ ToolIdOf(Enqueued[q]) = toolBlockIds[TakenMsg.event.index]]_vars

\* t1 was started at index 0 and completed by '{"k":1}', then t2 was started
\* at index 0 and got '{"k":': the events of each block carry its tool id.
C33_Witness ==
    /\ Scripted /\ received = 4 /\ script \in SteppedScripts
    /\ script.messages[2] = FragmentMsg(0, FragWhole)
    /\ script.messages[3] = ToolStartMsg(0, "t2")
    /\ script.messages[4] = FragmentMsg(0, FragHead)
    /\ toolBlockIds[0] = "t2"
    /\ toolCalls[0].id = "t2" /\ toolCalls[0].arguments = FragHead
    /\ \A i \in CausedBy(2) : ToolIdOf(out[i]) = "t1"
    /\ \A i \in CausedBy(3) \cup CausedBy(4) : ToolIdOf(out[i]) = "t2"
    /\ Cardinality(OfType("tool-input-start")) = 2

\* The step handles a complete user message.
UserTaken == Taken /\ TakenMsg.type = "user"
\* The ToolResultBlocks of a user message, in block order; none when the
\* content is not an array.
ResultBlocksOf(msg) ==
    IF "content" \in DOMAIN msg.message
    THEN SelectSeq(msg.message.content, LAMBDA b : b.type = "tool_result")
    ELSE << >>
\* The tool-result events stated for a user message, where ofNull is the
\* result stated for a null content.
StatedResults(msg, ofNull) ==
    LET blocks == ResultBlocksOf(msg)
    IN  [i \in 1 .. Len(blocks) |->
            [type |-> "tool-result",
             toolCallId |-> blocks[i].tool_use_id,
             toolName |-> "unknown",
             isError |-> ("is_error" \in DOMAIN blocks[i]) /\ blocks[i].is_error,
             result |-> IF blocks[i].content.kind = "string"
                        THEN [raw |-> blocks[i].content.value]
                        ELSE IF blocks[i].content.kind = "null" THEN ofNull
                        ELSE [json |-> blocks[i].content.value]]]

\* C34 as stated: the step that handles a user message enqueues one
\* tool-result per ToolResultBlock, in block order, with the block's
\* tool_use_id, toolName 'unknown', the is_error flag or false, and as result
\* the content when it is a string and its serialization otherwise, a null
\* content included; other blocks and a content that is no array give nothing.
C34_ResultsSerialized ==
    [][UserTaken => Events(Enqueued) = StatedResults(TakenMsg, [json |-> "null"])]_vars

\* C34 amended: as above, but the result of a block whose content is null is
\* the empty string.
C34_ResultsNormalized ==
    [][UserTaken => Events(Enqueued) = StatedResults(TakenMsg, [raw |-> ""])]_vars

\* A user message with a null-content result of t1 and an error result of t2
\* was handled after the stream had completed t1: two tool-results in block
\* order, the first with the empty string.
C34_Witness ==
    /\ Scripted /\ script \in TurnScripts /\ received = 3
    /\ script.messages[2] = FragmentMsg(0, FragWhole)
    /\ script.messages[3].type = "user"
    /\ Len(ResultBlocksOf(script.messages[3])) = 2
    /\ Cardinality(CausedBy(3)) = 2
    /\ \E i \in CausedBy(3) :
          /\ i + 1 \in CausedBy(3)
          /\ out[i].type = "tool-result" /\ out[i].toolCallId = "t1"
          /\ out[i].result = [raw |-> ""] /\ ~out[i].isError
          /\ out[i + 1].type = "tool-result" /\ out[i + 1].toolCallId = "t2"
          /\ out[i + 1].isError /\ out[i + 1].toolName = "unknown"

\* C35: a fault raised while one upstream message is processed (a malformed
\* stream_event, assistant message or user message) is absorbed: the output
\* holds an error event only when the upstream generator itself threw (or
\* when the message that raised the fault was a result message, of which the
\* claim says nothing).
C35_EventFaultsAbsorbed ==
    Streaming =>
        (OfType("error") # {} =>
            \/ upstreamEnd.kind = "throw"
            \/ /\ upstreamEnd.kind = "fault"
               /\ upstreamEnd.message.type = "result")

\* The step handles an input_json_delta.
FragmentTaken == Taken /\ IsFragmentMsg(TakenMsg)

\* C36: tool-argument JSON that is partial or malformed never shows as an
\* error: the step that handles an input_json_delta enqueues no error event
\* and leaves the session in its loop, and the input of every tool-call in
\* the output is valid JSON.
C36_BrokenArgumentsStaySilent ==
    /\ [](Scripted => \A i \in OfType("tool-call") : isParsableJson(out[i].input))
    /\ [][FragmentTaken =>
             /\ EnqueuedOfType("error") = 0
             /\ pc' = "loop"]_vars

\* The session of t1 ended with its finish after the fragments '{"k":' and
\* '{"k":' and the stop of the block: both fragments were forwarded, the
\* input was ended, and there is neither a tool-call nor an error.
C36_Witness ==
    /\ Scripted /\ script \in SteppedScripts /\ pc = "done"
    /\ Len(script.messages) = 5
    /\ script.messages[2] = FragmentMsg(0, FragHead)
    /\ script.messages[3] = FragmentMsg(0, FragHead)
    /\ script.messages[4] = StopMsg(0)
    /\ ~isParsableJson(toolCalls[0].arguments)
    /\ Cardinality(OfType("tool-input-delta")) = 2
    /\ Cardinality(OfType("tool-input-end")) = 1
    /\ OfType("tool-call") = {} /\ OfType("error") = {}
    /\ OfType("finish") # {}

C38_NoDeltaAfterInputEnd ==
    Streaming =>
        \A i \in OfType("tool-input-end") :
            \A j \in OfType("tool-input-delta") :
                j > i => out[j].id # out[i].id

RECURSIVE SentFor(_, _)
\* The concatenation, in arrival order, of the fragments the messages ms hold
\* for a block index.
SentFor(ms, index) ==
    IF ms = << >> THEN << >>
    ELSE (IF IsFragmentMsg(Head(ms)) /\ Head(ms).event.index = index
          THEN Head(ms).event.delta.partial_json ELSE << >>)
         \o SentFor(Tail(ms), index)
\* The block index of the tool use whose tool-call is at position i: the
\* index of the latest tool_use start of its id before i.
IndexOfCall(i) ==
    LET starts == { k \in OfType("tool-input-start") :
                        k < i /\ out[k].id = out[i].toolCallId }
        latest == CHOOSE k \in starts : \A l \in starts : l <= k
    IN  script.messages[out[latest].at].event.index

\* C39: when a scripted session is over, the input of every tool-call of the
\* incremental path is the concatenation, in arrival order, of all fragments
\* the upstream sent for the block index of the tool.
C39_CallCarriesAllFragments ==
    (Scripted /\ pc = "done") =>
        \A i \in OfType("tool-call") :
            (~FallbackCallAt(i) /\ TrackedBefore(out[i].toolCallId, i)) =>
                out[i].input = SentFor(script.messages, IndexOfCall(i))

\* C40: the tool-result events doStream enqueues for a user message are the
\* toolResults entries doGenerate extracts from the same message: the same
\* toolCallId, isError and result for every ToolResultBlock.
C40_SameResultOnBothPaths ==
    [][UserTaken => Events(Enqueued) = GenMessageResults(TakenMsg)]_vars

====
